---- MODULE Spec2Model ----
(***************************************************************************)
(* A model of rpcm (centreborelli/rpcm): the RPC camera model              *)
(* (rpcm/rpc_model.py) and the sidecar-file readers                        *)
(* (rpcm/rpc_file_readers.py).                                             *)
(*                                                                         *)
(* Numbers.  A Python/numpy float is modelled as an extended rational      *)
(* <<n, d>> in lowest terms: d > 0 is the exact rational n/d, <<0, 0>> is  *)
(* NaN, <<1, 0>> is +inf and <<-1, 0>> is -inf.  Arithmetic is exact       *)
(* (binary rounding and the sign of zero are not modelled); the special    *)
(* values follow IEEE-754 as numpy applies it (x/0 = +-inf, 0/0 = NaN,     *)
(* every comparison with NaN is false).                                    *)
(*                                                                         *)
(* Strings that the program splits or parses are sequences of              *)
(* one-character strings; keys and markers are TLA+ strings.               *)
(***************************************************************************)
EXTENDS Integers, Sequences, FiniteSets, TLC

(***************************************************************************)
(* Extended rational arithmetic (Python float / numpy float64)             *)
(***************************************************************************)
Abs(i) == IF i < 0 THEN -i ELSE i

Sign(i) == IF i > 0 THEN 1 ELSE IF i < 0 THEN -1 ELSE 0

RECURSIVE Gcd(_, _)
Gcd(a, b) == IF b = 0 THEN a ELSE Gcd(b, a % b)

\* n/d in lowest terms with a positive denominator; d = 0 gives a special value
Norm(n, d) ==
    IF d = 0 THEN <<Sign(n), 0>>
    ELSE LET g == Gcd(Abs(n), Abs(d))
             s == IF d < 0 THEN -1 ELSE 1
         IN <<s * (n \div g), s * (d \div g)>>

NaN == <<0, 0>>
PInf == <<1, 0>>
Zero == <<0, 1>>
One == <<1, 1>>

FInt(i) == <<i, 1>>

Frac(n, d) == Norm(n, d)

IsNaN(a) == a = NaN

IsFinite(a) == a[2] # 0

FNeg(a) == <<-a[1], a[2]>>

FAdd(a, b) ==
    IF a[2] = 1 /\ b[2] = 1 THEN <<a[1] + b[1], 1>>
    ELSE IF IsNaN(a) \/ IsNaN(b) THEN NaN
    ELSE IF a[2] = 0 /\ b[2] = 0 THEN (IF a = b THEN a ELSE NaN)
    ELSE IF a[2] = 0 THEN a
    ELSE IF b[2] = 0 THEN b
    ELSE LET l == (a[2] \div Gcd(a[2], b[2])) * b[2]
         IN Norm(a[1] * (l \div a[2]) + b[1] * (l \div b[2]), l)

FSub(a, b) == FAdd(a, FNeg(b))

\* inf * 0 = NaN falls out of Norm(0, 0)
FMul(a, b) ==
    IF a[2] = 1 /\ b[2] = 1 THEN <<a[1] * b[1], 1>>
    ELSE Norm(a[1] * b[1], a[2] * b[2])

FRecip(a) ==
    IF a[2] = 0 THEN (IF a[1] = 0 THEN NaN ELSE Zero)
    ELSE IF a[1] = 0 THEN PInf
    ELSE IF a[1] > 0 THEN <<a[2], a[1]>>
    ELSE <<-a[2], -a[1]>>

\* numpy true division: x/0 = +-inf, 0/0 = NaN, no exception
FDiv(a, b) == FMul(a, FRecip(b))

FLt(a, b) ==
    IF IsNaN(a) \/ IsNaN(b) THEN FALSE
    ELSE IF a[2] = 0 /\ b[2] = 0 THEN a[1] < b[1]
    ELSE IF a[2] = 0 THEN a[1] < 0
    ELSE IF b[2] = 0 THEN b[1] > 0
    ELSE a[1] * b[2] < b[1] * a[2]

FLe(a, b) ==
    IF IsNaN(a) \/ IsNaN(b) THEN FALSE
    ELSE a = b \/ FLt(a, b)

FAbs(a) == <<Abs(a[1]), a[2]>>

(***************************************************************************)
(* Polynomial evaluator                                                    *)
(***************************************************************************)
NCoeff == 20

\* a ** k for k in 0..3
RECURSIVE FPow(_, _)
FPow(a, k) == IF k = 0 THEN One ELSE FMul(a, FPow(a, k - 1))

\* c * x^e[1] * y^e[2] * z^e[3]
Term(c, e, x, y, z) == FMul(c, FMul(FPow(x, e[1]), FMul(FPow(y, e[2]), FPow(z, e[3]))))

\* the sum of the terms poly[k] * monomial k of a table of exponents
RECURSIVE SumTerms(_, _, _, _, _, _)
SumTerms(table, poly, x, y, z, k) ==
    IF k = 0 THEN Zero
    ELSE FAdd(SumTerms(table, poly, x, y, z, k - 1), Term(poly[k], table[k], x, y, z))

\* the monomials in the order 1, x, y, z, ...: x and y trade places
XFirstOrder ==
    << <<0, 0, 0>>, <<1, 0, 0>>, <<0, 1, 0>>, <<0, 0, 1>>, <<1, 1, 0>>, <<1, 0, 1>>,
       <<0, 1, 1>>, <<2, 0, 0>>, <<0, 2, 0>>, <<0, 0, 2>>, <<1, 1, 1>>, <<3, 0, 0>>,
       <<1, 2, 0>>, <<1, 0, 2>>, <<2, 1, 0>>, <<0, 3, 0>>, <<0, 1, 2>>, <<2, 0, 1>>,
       <<0, 2, 1>>, <<0, 0, 3>> >>

\* mutant: the coefficients are taken in the order 1, x, y, z, ...
apply_polyXFirst(poly, x, y, z) == SumTerms(XFirstOrder, poly, x, y, z, NCoeff)

\* apply_poly: poly[i] of the source is poly[i + 1] here
apply_poly(poly, x, y, z) ==
    LET o0 == Zero
        o1 == FAdd(o0, poly[1])
        o2 == FAdd(o1, FAdd(FAdd(FMul(poly[2], y), FMul(poly[3], x)), FMul(poly[4], z)))
        o3 == FAdd(o2, FAdd(FAdd(FMul(FMul(poly[5], y), x), FMul(FMul(poly[6], y), z)),
                            FMul(FMul(poly[7], x), z)))
        o4 == FAdd(o3, FAdd(FAdd(FMul(FMul(poly[8], y), y), FMul(FMul(poly[9], x), x)),
                            FMul(FMul(poly[10], z), z)))
        o5 == FAdd(o4, FMul(FMul(FMul(poly[11], x), y), z))
        o6 == FAdd(o5, FMul(FMul(FMul(poly[12], y), y), y))
        o7 == FAdd(o6, FAdd(FAdd(FMul(FMul(FMul(poly[13], y), x), x),
                                 FMul(FMul(FMul(poly[14], y), z), z)),
                            FMul(FMul(FMul(poly[15], y), y), x)))
        o8 == FAdd(o7, FMul(FMul(FMul(poly[16], x), x), x))
        o9 == FAdd(o8, FAdd(FAdd(FMul(FMul(FMul(poly[17], x), z), z),
                                 FMul(FMul(FMul(poly[18], y), y), z)),
                            FMul(FMul(FMul(poly[19], x), x), z)))
        o10 == FAdd(o9, FMul(FMul(FMul(poly[20], z), z), z))
    IN o10

apply_rfm(num, den, x, y, z) == FDiv(apply_poly(num, x, y, z), apply_poly(den, x, y, z))

(***************************************************************************)
(* Strings: str.split(), " ".join(), float(str) and str(float)             *)
(***************************************************************************)
DigitChars == <<"0", "1", "2", "3", "4", "5", "6", "7", "8", "9">>

IsDigit(c) == \E i \in 1..10 : DigitChars[i] = c

DigitOf(c) == (CHOOSE i \in 1..10 : DigitChars[i] = c) - 1

IsSpace(c) == c \in {" ", "\t", "\n"}

RECURSIVE Pow10(_)
Pow10(k) == IF k = 0 THEN 1 ELSE 10 * Pow10(k - 1)

\* first index of character c in s, 0 when absent
IndexOf(s, c) ==
    IF \E i \in 1..Len(s) : s[i] = c
    THEN CHOOSE i \in 1..Len(s) : s[i] = c /\ \A j \in 1..(i - 1) : s[j] # c
    ELSE 0

RECURSIVE DigitsVal(_)
DigitsVal(s) ==
    IF s = <<>> THEN 0
    ELSE 10 * DigitsVal(SubSeq(s, 1, Len(s) - 1)) + DigitOf(s[Len(s)])

AllDigits(s) == \A i \in 1..Len(s) : IsDigit(s[i])

\* str.split(): the whitespace-separated tokens of s, each running from a
\* start (a non-space that begins s or follows a space) to the next space
Split(s) ==
    LET starts == {i \in 1..Len(s) : ~IsSpace(s[i]) /\ (i = 1 \/ IsSpace(s[i - 1]))}
        kth(k) == CHOOSE i \in starts : Cardinality({j \in starts : j < i}) = k - 1
        stop(i) == CHOOSE e \in i..Len(s) :
                       /\ \A j \in i..e : ~IsSpace(s[j])
                       /\ (e = Len(s) \/ IsSpace(s[e + 1]))
    IN [k \in 1..Cardinality(starts) |-> SubSeq(s, kth(k), stop(kth(k)))]

RECURSIVE Join(_)
\* " ".join(parts)
Join(parts) ==
    IF parts = <<>> THEN <<>>
    ELSE IF Len(parts) = 1 THEN parts[1]
    ELSE parts[1] \o <<" ">> \o Join(Tail(parts))

UpperCase == <<"A", "B", "C", "D", "E", "F", "G", "H", "I", "J", "K", "L", "M", "N", "O", "P", "Q", "R", "S", "T", "U", "V", "W", "X", "Y", "Z">>

LowerCase == <<"a", "b", "c", "d", "e", "f", "g", "h", "i", "j", "k", "l", "m", "n", "o", "p", "q", "r", "s", "t", "u", "v", "w", "x", "y", "z">>

\* str.lower()
Lower(str) ==
    [i \in 1..Len(str) |->
        IF \E k \in 1..Len(UpperCase) : UpperCase[k] = str[i]
        THEN LowerCase[CHOOSE k \in 1..Len(UpperCase) : UpperCase[k] = str[i]]
        ELSE str[i]]

\* a literal without its sign
Unsigned(tok) == IF tok # <<>> /\ tok[1] \in {"-", "+"} THEN Tail(tok) ELSE tok

\* position of the exponent mark, 0 when there is none
ExpMark(body) == IF IndexOf(body, "e") # 0 THEN IndexOf(body, "e") ELSE IndexOf(body, "E")

\* the pieces of a literal whose mantissa mant has its point at dot
Pieces(neg, mant, dot, ex, hasexp) ==
    [neg |-> neg,
     ip |-> IF dot = 0 THEN mant ELSE SubSeq(mant, 1, dot - 1),
     fp |-> IF dot = 0 THEN <<>> ELSE SubSeq(mant, dot + 1, Len(mant)),
     hasexp |-> hasexp,
     exneg |-> ex # <<>> /\ ex[1] = "-",
     exd |-> Unsigned(ex)]

MantExp(neg, mant, ex, hasexp) == Pieces(neg, mant, IndexOf(mant, "."), ex, hasexp)

BodyParts(neg, body, e) ==
    MantExp(neg, IF e = 0 THEN body ELSE SubSeq(body, 1, e - 1),
            IF e = 0 THEN <<>> ELSE SubSeq(body, e + 1, Len(body)), e # 0)

\* the pieces of a decimal literal [sign] digits [. digits] [e [sign] digits]
LitParts(tok) == BodyParts(tok # <<>> /\ tok[1] = "-", Unsigned(tok), ExpMark(Unsigned(tok)))

IsLiteral(p) ==
    /\ Len(p.ip) + Len(p.fp) > 0
    /\ AllDigits(p.ip)
    /\ AllDigits(p.fp)
    /\ (p.hasexp => (p.exd # <<>> /\ AllDigits(p.exd)))

\* the names float() accepts, in any case and with a sign: nan, inf, infinity
IsSpecial(tok) ==
    /\ Unsigned(tok) # <<>>
    /\ Unsigned(tok)[1] \in {"n", "N", "i", "I"}
    /\ Lower(Unsigned(tok)) \in {<<"n", "a", "n">>, <<"i", "n", "f">>,
                                 <<"i", "n", "f", "i", "n", "i", "t", "y">>}

SpecialValue(tok) ==
    IF Unsigned(tok)[1] \in {"n", "N"} THEN NaN
    ELSE IF tok[1] = "-" THEN FNeg(PInf)
    ELSE PInf

\* whether float(tok) succeeds (otherwise Python raises ValueError)
IsFloatLiteral(tok) == IsSpecial(tok) \/ IsLiteral(LitParts(tok))

\* m * 10^ex
Scaled(m, ex) == IF ex >= 0 THEN Norm(m * Pow10(ex), 1) ELSE Norm(m, Pow10(-ex))

LitValue(p) ==
    Scaled((IF p.neg THEN -1 ELSE 1) * DigitsVal(p.ip \o p.fp),
           (IF p.exneg THEN -1 ELSE 1) * DigitsVal(p.exd) - Len(p.fp))

\* float(tok) for a token that IsFloatLiteral
FloatOf(tok) == IF IsSpecial(tok) THEN SpecialValue(tok) ELSE LitValue(LitParts(tok))

\* decimal digits of a natural number
RECURSIVE NatDigits(_)
NatDigits(a) ==
    IF a < 10 THEN <<DigitChars[a + 1]>>
    ELSE Append(NatDigits(a \div 10), DigitChars[(a % 10) + 1])

\* digits after the decimal point of r/d (0 <= r < d), for a finite decimal
RECURSIVE FracDigits(_, _)
FracDigits(r, d) ==
    IF r = 0 THEN <<>>
    ELSE <<DigitChars[((10 * r) \div d) + 1]>> \o FracDigits((10 * r) % d, d)

\* number of leading zeros after the point of r/d (0 < r < d)
RECURSIVE LeadZeros(_, _)
LeadZeros(r, d) == IF 10 * r >= d THEN 0 ELSE 1 + LeadZeros(10 * r, d)

\* str(x) of a float (repr): plain notation from 1e-4 up, exponent below
Str(x) ==
    IF x = NaN THEN <<"n", "a", "n">>
    ELSE IF x[2] = 0 THEN (IF x[1] > 0 THEN <<"i", "n", "f">> ELSE <<"-", "i", "n", "f">>)
    ELSE
    LET a == Abs(x[1])
        d == x[2]
        sgn == IF x[1] < 0 THEN <<"-">> ELSE <<>>
        ip == a \div d
        r == a % d
    IN IF r = 0 THEN sgn \o NatDigits(ip) \o <<".", "0">>
       ELSE IF ip > 0 \/ LeadZeros(r, d) < 4
            THEN sgn \o NatDigits(ip) \o <<".">> \o FracDigits(r, d)
            ELSE LET k == LeadZeros(r, d) + 1
                     sig == FracDigits(r, d)
                     digs == SubSeq(sig, k, Len(sig))
                     e2 == IF k < 10 THEN <<"0">> \o NatDigits(k) ELSE NatDigits(k)
                 IN sgn \o <<digs[1]>>
                        \o (IF Len(digs) > 1 THEN <<".">> \o Tail(digs) ELSE <<>>)
                        \o <<"e", "-">> \o e2

(***************************************************************************)
(* RPCModel: construction                                                  *)
(*                                                                         *)
(* A tag mapping d maps keys to values [t |-> "str", v |-> characters] or  *)
(* [t |-> "float", v |-> number].  A model object is its __dict__: a       *)
(* function from attribute names to numbers and lists of numbers.          *)
(***************************************************************************)
StrVal(chars) == [t |-> "str", v |-> chars]

FloatVal(x) == [t |-> "float", v |-> x]

\* the scalar assignments of __init__, in source order: <<key, attribute>>
OffsetScaleKeys ==
    << <<"LINE_OFF", "row_offset">>, <<"SAMP_OFF", "col_offset">>,
       <<"LAT_OFF", "lat_offset">>, <<"LONG_OFF", "lon_offset">>,
       <<"HEIGHT_OFF", "alt_offset">>,
       <<"LINE_SCALE", "row_scale">>, <<"SAMP_SCALE", "col_scale">>,
       <<"LAT_SCALE", "lat_scale">>, <<"LONG_SCALE", "lon_scale">>,
       <<"HEIGHT_SCALE", "alt_scale">> >>

ProjectionKeys ==
    << <<"LINE_NUM_COEFF", "row_num">>, <<"LINE_DEN_COEFF", "row_den">>,
       <<"SAMP_NUM_COEFF", "col_num">>, <<"SAMP_DEN_COEFF", "col_den">> >>

LocalizationKeys ==
    << <<"LON_NUM_COEFF", "lon_num">>, <<"LON_DEN_COEFF", "lon_den">>,
       <<"LAT_NUM_COEFF", "lat_num">>, <<"LAT_DEN_COEFF", "lat_den">> >>

\* float(d[k]): "" when it succeeds, else the exception's name
FloatErr(d, k) ==
    IF k \notin DOMAIN d THEN "KeyError"
    ELSE IF d[k].t = "float" THEN ""
    ELSE LET toks == Split(d[k].v)
         IN IF Len(toks) = 1 /\ IsFloatLiteral(toks[1]) THEN "" ELSE "ValueError"

FloatField(d, k) == IF d[k].t = "float" THEN d[k].v ELSE FloatOf(Split(d[k].v)[1])

\* list(map(float, d[k].split()))
CoeffErr(d, k) ==
    IF k \notin DOMAIN d THEN "KeyError"
    ELSE IF d[k].t # "str" THEN "AttributeError"
    ELSE LET toks == Split(d[k].v)
         IN IF \A i \in 1..Len(toks) : IsFloatLiteral(toks[i]) THEN "" ELSE "ValueError"

CoeffField(d, k) ==
    LET toks == Split(d[k].v)
    IN [i \in 1..Len(toks) |-> FloatOf(toks[i])]

\* the first exception raised by the assignments of keys, "" when none
RECURSIVE FirstErr(_)
FirstErr(errs) ==
    IF errs = <<>> THEN ""
    ELSE IF errs[1] # "" THEN errs[1]
    ELSE FirstErr(Tail(errs))

\* the attributes named by keys, the i-th holding vals[i]
Attrs(keys, vals) ==
    [a \in {keys[i][2] : i \in 1..Len(keys)} |->
        vals[CHOOSE i \in 1..Len(keys) : keys[i][2] = a]]

\* mutant: the new object takes copies of the offsets, the scales and the
\* projection coefficients only
FromDictProjectionOnly(d) ==
    [err |-> "",
     obj |-> [a \in DOMAIN d \ {"lon_num", "lon_den", "lat_num", "lat_den"} |-> d[a]]]

\* the "rpcm" branch of RPCModel.__init__: self.__dict__ = d
FromDict(d) == [err |-> "", obj |-> d]

\* mutant: the direct model is read when its four keys are all present
HasLocalizationAllFour(d) ==
    {"LON_NUM_COEFF", "LON_DEN_COEFF", "LAT_NUM_COEFF", "LAT_DEN_COEFF"} \subseteq DOMAIN d

\* if 'LON_NUM_COEFF' in d
HasLocalization(d) == "LON_NUM_COEFF" \in DOMAIN d

\* RPCModel.__init__(d, dict_format): [err, obj]; obj is the new object's
\* __dict__ when err = ""
RPCModel(d, dict_format) ==
    IF dict_format = "geotiff" THEN
        LET hasloc == HasLocalization(d)
            errs == [i \in 1..10 |-> FloatErr(d, OffsetScaleKeys[i][1])]
                    \o [i \in 1..4 |-> CoeffErr(d, ProjectionKeys[i][1])]
                    \o (IF hasloc
                        THEN [i \in 1..4 |-> CoeffErr(d, LocalizationKeys[i][1])]
                        ELSE <<>>)
            e == FirstErr(errs)
            scal == [i \in 1..10 |-> FloatField(d, OffsetScaleKeys[i][1])]
            proj == [i \in 1..4 |-> CoeffField(d, ProjectionKeys[i][1])]
            locz == [i \in 1..4 |-> CoeffField(d, LocalizationKeys[i][1])]
        IN IF e # "" THEN [err |-> e, obj |-> <<>>]
           ELSE [err |-> "",
                 obj |-> Attrs(OffsetScaleKeys, scal) @@ Attrs(ProjectionKeys, proj)
                         @@ (IF hasloc THEN Attrs(LocalizationKeys, locz) ELSE <<>>)]
    ELSE IF dict_format = "rpcm" THEN FromDict(d)
    ELSE [err |-> "ValueError", obj |-> <<>>]

hasattr(obj, a) == a \in DOMAIN obj

(***************************************************************************)
(* Tag mappings the models are built from                                  *)
(***************************************************************************)
\* a coefficient string of NCoeff tokens: tok[i] at source index i, else "0"
CoeffString(tok) ==
    Join([i \in 1..NCoeff |-> IF (i - 1) \in DOMAIN tok THEN tok[i - 1] ELSE <<"0">>])

DenOne == CoeffString(0 :> <<"1">>)

BaseTags ==
    [LINE_OFF |-> StrVal(<<"1", "0", "0">>), SAMP_OFF |-> StrVal(<<"1", "0", "0">>),
     LAT_OFF |-> StrVal(<<"4", "0">>), LONG_OFF |-> StrVal(<<"1", "0">>),
     HEIGHT_OFF |-> StrVal(<<"7", "0">>),
     LINE_SCALE |-> StrVal(<<"1", "0", "0">>), SAMP_SCALE |-> StrVal(<<"1", "0", "0">>),
     LAT_SCALE |-> StrVal(<<"2">>), LONG_SCALE |-> StrVal(<<"2">>),
     HEIGHT_SCALE |-> StrVal(<<"2", "0">>),
     LINE_DEN_COEFF |-> StrVal(DenOne), SAMP_DEN_COEFF |-> StrVal(DenOne)]

\* col = lon, row = lat (normalised): one update reaches any target
TagsIdentity ==
    BaseTags @@ [SAMP_NUM_COEFF |-> StrVal(CoeffString(1 :> <<"1">>)),
                 LINE_NUM_COEFF |-> StrVal(CoeffString(2 :> <<"1">>))]

\* col = lon + lat - lat*alt, row = lat*alt: the identity at nalt = 1, and
\* col = lon + lat, row = 0 at nalt = 0, where the probes e1, e2 are parallel
TagsAltitude ==
    BaseTags @@ [SAMP_NUM_COEFF |-> StrVal(CoeffString(
                     (1 :> <<"1">>) @@ (2 :> <<"1">>) @@ (6 :> <<"-", "1">>))),
                 LINE_NUM_COEFF |-> StrVal(CoeffString(6 :> <<"1">>))]

\* col = lon^2 + 10 lon, row = lat: the target ncol = 0 takes two updates
TagsQuadratic ==
    BaseTags @@ [SAMP_NUM_COEFF |-> StrVal(CoeffString(
                     (1 :> <<"1", "0">>) @@ (7 :> <<"1">>))),
                 LINE_NUM_COEFF |-> StrVal(CoeffString(2 :> <<"1">>))]

\* the identity with the direct model lon = col/2, lat = row/2
TagsDirect ==
    TagsIdentity @@ [LON_NUM_COEFF |-> StrVal(CoeffString(1 :> <<"0", ".", "5">>)),
                     LON_DEN_COEFF |-> StrVal(DenOne),
                     LAT_NUM_COEFF |-> StrVal(CoeffString(2 :> <<"0", ".", "5">>)),
                     LAT_DEN_COEFF |-> StrVal(DenOne)]

(***************************************************************************)
(* State                                                                   *)
(***************************************************************************)
VARIABLES
    tags,      \* the tag mapping the model was built from
    points,    \* the (col, row, alt) triples the caller draws its batches from
    rpc,       \* the model object (its __dict__)
    pc,        \* "idle", "loop" (inside the while loop), "returned", "raised"
    args,      \* the arguments of the current call to localization
    it,        \* the frame of localization_iterative
    result,    \* what the call returned or raised
    prev       \* the previous completed call: its altitudes and its outcome

locvars == <<tags, points, rpc, pc, args, it, result, prev>>

VARIABLES
    rpc1,      \* the model under comparison, NoModel before it is constructed
    rpc2,      \* the model it is compared with
    origin,    \* how rpc2 was obtained from rpc1
    outcome    \* what the last comparison evaluated to

eqvars == <<rpc1, rpc2, origin, outcome>>

VARIABLES
    file,      \* the sidecar file on disk: its name and its content
    rd         \* what read_rpc_file returned or raised for it

rdvars == <<file, rd>>

VARIABLES
    shared,    \* the model object several threads call at once
    inputs,    \* the arrays the callers pass: x (lon or col), y (lat or row), alt
    calls,     \* per thread: the call it is in, its frame and its result
    given      \* the model as constructed and the arrays as the callers filled them

ccvars == <<shared, inputs, calls, given>>

VARIABLES
    fargs,     \* the arguments of apply_poly / apply_rfm: num, den, x, y, z
    fout       \* what was evaluated last, and its value

fnvars == <<fargs, fout>>

vars == <<locvars, eqvars, rdvars, ccvars, fnvars>>

NoModel == <<>>

NoOrigin == [kind |-> "none", shift |-> Zero]

NoOutcome ==
    [left |-> 0, offsets |-> "", scales |-> "", projection |-> "",
     localization |-> "", eq |-> ""]

NoFile == [name |-> <<>>, content |-> <<>>]

NoRead == [kind |-> "none", msg |-> <<>>, value |-> <<>>]

\* nothing is being compared
EqIdle ==
    /\ rpc1 = NoModel
    /\ rpc2 = NoModel
    /\ origin = NoOrigin
    /\ outcome = NoOutcome

\* no file is being read
RdIdle ==
    /\ file = NoFile
    /\ rd = NoRead

NoInputs == [x |-> <<>>, y |-> <<>>, alt |-> <<>>]

\* no thread shares a model
CcIdle ==
    /\ shared = NoModel
    /\ inputs = NoInputs
    /\ calls = <<>>
    /\ given = <<>>

NoArgs == [num |-> <<>>, den |-> <<>>, x |-> Zero, y |-> Zero, z |-> Zero]

NoOut == [of |-> "none", value |-> Zero]

\* no polynomial is being evaluated
FnIdle ==
    /\ fargs = NoArgs
    /\ fout = NoOut

(***************************************************************************)
(* RPCModel.localization and RPCModel.localization_iterative               *)
(***************************************************************************)
MaxIter == 100

\* (value - offset) / scale over a batch
Normalize(v, offset, scale) == [i \in 1..Len(v) |-> FDiv(FSub(v[i], offset), scale)]

Denormalize(v, offset, scale) == [i \in 1..Len(v) |-> FAdd(FMul(v[i], scale), offset)]

\* apply_rfm over a batch
Rfm(num, den, x, y, z) == [i \in 1..Len(x) |-> apply_rfm(num, den, x[i], y[i], z[i])]

Plus(v, e) == [i \in 1..Len(v) |-> FAdd(v[i], e)]

\* mutant: NaN compares as below the tolerance
BelowToleranceNaN(r) == r = NaN \/ r[1] <= 0

\* r < 1e-18.  Every finite number of the model has a denominator below
\* 2^31 < 1e18, so a finite r is below 1e-18 exactly when r <= 0; -inf is
\* below it, +inf and NaN are not.
BelowTolerance(r) == r # NaN /\ r[1] <= 0

SqResidual(x0, y0, col, row) ==
    LET dx == FSub(x0, col)
        dy == FSub(y0, row)
    IN FAdd(FMul(dx, dx), FMul(dy, dy))

\* mutant: np.any in place of np.all
ConvergedAny(f) ==
    \E i \in 1..Len(f.col) : BelowTolerance(SqResidual(f.x0[i], f.y0[i], f.col[i], f.row[i]))

\* np.all((x0 - col) ** 2 + (y0 - row) ** 2 < 1e-18)
Converged(f) ==
    \A i \in 1..Len(f.col) : BelowTolerance(SqResidual(f.x0[i], f.y0[i], f.col[i], f.row[i]))

\* x0, y0, x1, y1, x2, y2 at the estimate (lon, lat) with step EPS
Probes(m, lon, lat, alt, EPS) ==
    [x0 |-> Rfm(m.col_num, m.col_den, lat, lon, alt),
     y0 |-> Rfm(m.row_num, m.row_den, lat, lon, alt),
     x1 |-> Rfm(m.col_num, m.col_den, lat, Plus(lon, EPS), alt),
     y1 |-> Rfm(m.row_num, m.row_den, lat, Plus(lon, EPS), alt),
     x2 |-> Rfm(m.col_num, m.col_den, Plus(lat, EPS), lon, alt),
     y2 |-> Rfm(m.row_num, m.row_den, Plus(lat, EPS), lon, alt)]

FirstEPS == FInt(2)

\* mutant: the step stays at 2
LaterEPSTwo == FInt(2)

LaterEPS == Frac(1, 10)

\* the frame on entry to the while loop
IterativeEntry(m, col, row, alt) ==
    LET lon == [i \in 1..Len(col) |-> FInt(-1)]
        lat == [i \in 1..Len(col) |-> FInt(-1)]
    IN [col |-> col, row |-> row, alt |-> alt, lon |-> lon, lat |-> lat,
        EPS |-> FirstEPS, n |-> 0] @@ Probes(m, lon, lat, alt, FirstEPS)

\* <u, e> / <e, e> for one point
ProjectOn(ux, uy, ex, ey) ==
    FDiv(FAdd(FMul(ux, ex), FMul(uy, ey)), FAdd(FMul(ex, ex), FMul(ey, ey)))

\* mutant: only the first point of the batch is updated
LoopBodyFirstOnly(m, f) ==
    LET a1 == ProjectOn(FSub(f.col[1], f.x0[1]), FSub(f.row[1], f.y0[1]),
                        FSub(f.x1[1], f.x0[1]), FSub(f.y1[1], f.y0[1]))
        a2 == ProjectOn(FSub(f.col[1], f.x0[1]), FSub(f.row[1], f.y0[1]),
                        FSub(f.x2[1], f.x0[1]), FSub(f.y2[1], f.y0[1]))
        lon == [f.lon EXCEPT ![1] = FAdd(f.lon[1], FMul(a1, f.EPS))]
        lat == [f.lat EXCEPT ![1] = FAdd(f.lat[1], FMul(a2, f.EPS))]
    IN [col |-> f.col, row |-> f.row, alt |-> f.alt, lon |-> lon, lat |-> lat,
        EPS |-> LaterEPS, n |-> f.n + 1] @@ Probes(m, lon, lat, f.alt, LaterEPS)

\* one pass through the body of the while loop
LoopBody(m, f) ==
    LET a1 == [i \in 1..Len(f.col) |->
                 ProjectOn(FSub(f.col[i], f.x0[i]), FSub(f.row[i], f.y0[i]),
                           FSub(f.x1[i], f.x0[i]), FSub(f.y1[i], f.y0[i]))]
        a2 == [i \in 1..Len(f.col) |->
                 ProjectOn(FSub(f.col[i], f.x0[i]), FSub(f.row[i], f.y0[i]),
                           FSub(f.x2[i], f.x0[i]), FSub(f.y2[i], f.y0[i]))]
        lon == [i \in 1..Len(f.col) |-> FAdd(f.lon[i], FMul(a1[i], f.EPS))]
        lat == [i \in 1..Len(f.col) |-> FAdd(f.lat[i], FMul(a2[i], f.EPS))]
    IN [col |-> f.col, row |-> f.row, alt |-> f.alt, lon |-> lon, lat |-> lat,
        EPS |-> LaterEPS, n |-> f.n + 1] @@ Probes(m, lon, lat, f.alt, LaterEPS)

\* if n > 100: raise
CapExceeded(f) == f.n > MaxIter

NoFrame ==
    [col |-> <<>>, row |-> <<>>, alt |-> <<>>, lon |-> <<>>, lat |-> <<>>,
     EPS |-> Zero, n |-> 0,
     x0 |-> <<>>, y0 |-> <<>>, x1 |-> <<>>, y1 |-> <<>>, x2 |-> <<>>, y2 |-> <<>>]

NoResult == [kind |-> "none", lon |-> <<>>, lat |-> <<>>]

Raised(e) == [kind |-> e, lon |-> <<>>, lat |-> <<>>]

\* the tail of localization: de-normalise unless return_normalized
Returned(m, lon, lat, return_normalized) ==
    IF return_normalized THEN [kind |-> "value", lon |-> lon, lat |-> lat]
    ELSE [kind |-> "value",
          lon |-> Denormalize(lon, m.lon_offset, m.lon_scale),
          lat |-> Denormalize(lat, m.lat_offset, m.lat_scale)]

\* localization_iterative as a function of its arguments: the while loop run
\* from the frame f to its return or its raise
RECURSIVE WhileLoop(_, _)
WhileLoop(m, f) ==
    IF Converged(f) THEN [kind |-> "value", lon |-> f.lon, lat |-> f.lat]
    ELSE IF CapExceeded(f) THEN Raised("MaxLocalizationIterationsError")
    ELSE WhileLoop(m, LoopBody(m, f))

localization_iterative(m, col, row, alt) == WhileLoop(m, IterativeEntry(m, col, row, alt))

\* the outcome r of the iterative inversion, as localization hands it on: a
\* raise passes through, a value goes through the tail
AfterIterative(m, r, return_normalized) ==
    IF r.kind = "value" THEN Returned(m, r.lon, r.lat, return_normalized) ELSE r

\* localization as a function of the model and the arguments
localization(m, col, row, alt, return_normalized) ==
    LET ncol == Normalize(col, m.col_offset, m.col_scale)
        nrow == Normalize(row, m.row_offset, m.row_scale)
        nalt == Normalize(alt, m.alt_offset, m.alt_scale)
    IN IF ~hasattr(m, "lat_num")
       THEN AfterIterative(m, localization_iterative(m, ncol, nrow, nalt),
                           return_normalized)
       ELSE Returned(m, Rfm(m.lon_num, m.lon_den, nrow, ncol, nalt),
                        Rfm(m.lat_num, m.lat_den, nrow, ncol, nalt),
                        return_normalized)

\* mutant: the normalised longitude is passed as x, the latitude as y
projectionLonFirst(m, lon, lat, alt) ==
    LET nlon == Normalize(lon, m.lon_offset, m.lon_scale)
        nlat == Normalize(lat, m.lat_offset, m.lat_scale)
        nalt == Normalize(alt, m.alt_offset, m.alt_scale)
    IN [col |-> Denormalize(Rfm(m.col_num, m.col_den, nlon, nlat, nalt),
                            m.col_offset, m.col_scale),
        row |-> Denormalize(Rfm(m.row_num, m.row_den, nlon, nlat, nalt),
                            m.row_offset, m.row_scale)]

\* projection as a function of the model and the arguments: [col, row]
projection(m, lon, lat, alt) ==
    LET nlon == Normalize(lon, m.lon_offset, m.lon_scale)
        nlat == Normalize(lat, m.lat_offset, m.lat_scale)
        nalt == Normalize(alt, m.alt_offset, m.alt_scale)
    IN [col |-> Denormalize(Rfm(m.col_num, m.col_den, nlat, nlon, nalt),
                            m.col_offset, m.col_scale),
        row |-> Denormalize(Rfm(m.row_num, m.row_den, nlat, nlon, nalt),
                            m.row_offset, m.row_scale)]

NoCall == [col |-> <<>>, row |-> <<>>, alt |-> <<>>, return_normalized |-> FALSE]

\* mutant: the closed-form branch is never taken
UsesDirectModelNever(m) == FALSE

\* whether localization takes the closed-form branch
UsesDirectModel(m) == hasattr(m, "lat_num")

\* what the caller remembers of a completed call: its altitudes and its outcome
Remember ==
    IF pc = "idle" THEN prev
    ELSE [alts |-> {args.alt[i] : i \in 1..Len(args.alt)}, kind |-> result.kind]

\* a call to localization: the direct model answers at once, the iterative
\* inversion enters its loop
Localization(col, row, alt, return_normalized) ==
    /\ pc \in {"idle", "returned", "raised"}
    /\ args' = [col |-> col, row |-> row, alt |-> alt,
                return_normalized |-> return_normalized]
    /\ prev' = Remember
    /\ LET ncol == Normalize(col, rpc.col_offset, rpc.col_scale)
           nrow == Normalize(row, rpc.row_offset, rpc.row_scale)
           nalt == Normalize(alt, rpc.alt_offset, rpc.alt_scale)
       IN IF ~UsesDirectModel(rpc)
          THEN /\ it' = IterativeEntry(rpc, ncol, nrow, nalt)
               /\ pc' = "loop"
               /\ result' = NoResult
          ELSE /\ it' = NoFrame
               /\ pc' = "returned"
               /\ result' = Returned(rpc,
                                Rfm(rpc.lon_num, rpc.lon_den, nrow, ncol, nalt),
                                Rfm(rpc.lat_num, rpc.lat_den, nrow, ncol, nalt),
                                return_normalized)
    /\ UNCHANGED <<tags, points, rpc, eqvars, rdvars, ccvars, fnvars>>

LoopIterate ==
    /\ pc = "loop"
    /\ ~Converged(it)
    /\ ~CapExceeded(it)
    /\ it' = LoopBody(rpc, it)
    /\ UNCHANGED <<tags, points, rpc, pc, args, result, prev, eqvars, rdvars, ccvars, fnvars>>

\* mutant: the failing call hands back its last estimate
LoopRaisePartial ==
    /\ pc = "loop"
    /\ ~Converged(it)
    /\ CapExceeded(it)
    /\ pc' = "raised"
    /\ result' = [kind |-> "MaxLocalizationIterationsError", lon |-> it.lon, lat |-> it.lat]
    /\ UNCHANGED <<tags, points, rpc, args, it, prev, eqvars, rdvars, ccvars, fnvars>>

LoopRaise ==
    /\ pc = "loop"
    /\ ~Converged(it)
    /\ CapExceeded(it)
    /\ pc' = "raised"
    /\ result' = Raised("MaxLocalizationIterationsError")
    /\ UNCHANGED <<tags, points, rpc, args, it, prev, eqvars, rdvars, ccvars, fnvars>>

LoopReturn ==
    /\ pc = "loop"
    /\ Converged(it)
    /\ pc' = "returned"
    /\ result' = Returned(rpc, it.lon, it.lat, args.return_normalized)
    /\ UNCHANGED <<tags, points, rpc, args, it, prev, eqvars, rdvars, ccvars, fnvars>>

MaxBatch == 2

Batches(S) == UNION {[1..k -> S] : k \in 1..MaxBatch}

Column(b, j) == [i \in 1..Len(b) |-> b[i][j]]

Pt(col, row, alt) == <<FInt(col), FInt(row), FInt(alt)>>

\* a model and the image points localized with it
LocScenarios ==
    {[tags |-> TagsIdentity, points |-> {Pt(100, 100, 70), Pt(200, 100, 90), Pt(0, 0, 70)}],
     [tags |-> TagsAltitude, points |-> {Pt(100, 100, 70), Pt(100, 100, 90)}],
     [tags |-> TagsQuadratic, points |-> {Pt(100, 100, 70)}],
     [tags |-> TagsDirect, points |-> {Pt(100, 100, 70), Pt(200, 100, 90)}]}

NoPrev == [alts |-> {}, kind |-> "none"]

\* no localization call is made
LocIdle ==
    /\ tags = <<>>
    /\ points = {}
    /\ rpc = NoModel
    /\ pc = "idle"
    /\ args = NoCall
    /\ it = NoFrame
    /\ result = NoResult
    /\ prev = NoPrev

LocInit ==
    /\ \E sc \in LocScenarios :
         /\ tags = sc.tags
         /\ points = sc.points
         /\ rpc = RPCModel(sc.tags, "geotiff").obj
    /\ pc = "idle"
    /\ args = NoCall
    /\ it = NoFrame
    /\ result = NoResult
    /\ prev = NoPrev
    /\ EqIdle
    /\ RdIdle
    /\ CcIdle
    /\ FnIdle

LocNext ==
    \/ \E b \in Batches(points), rn \in BOOLEAN :
         Localization(Column(b, 1), Column(b, 2), Column(b, 3), rn)
    \/ LoopIterate
    \/ LoopRaise
    \/ LoopReturn


(***************************************************************************)
(* RPCModel: export and comparison                                         *)
(***************************************************************************)
\* np.allclose's defaults: atol = 1 / AtolInv, rtol = 1 / RtolInv
AtolInv == 100000000

RtolInv == 100000

\* floor(k * n / d) for k = AtolInv / RtolInv, without forming k * n
ScaledFloor(n, d) ==
    LET k == AtolInv \div RtolInv
        r == n % d
    IN k * (n \div d) + (IF d % k = 0 THEN r \div (d \div k) ELSE (k * r) \div d)

\* delta <= atol + rtol * ay.  With delta = p/q and q a divisor of AtolInv
\* (numbers of at most eight decimals) the test is
\* p * (AtolInv / q) <= 1 + floor(AtolInv * rtol * ay), evaluated in integers.
WithinTolerance(delta, ay) ==
    IF AtolInv % delta[2] = 0
    THEN delta[1] <= (1 + ScaledFloor(ay[1], ay[2])) \div (AtolInv \div delta[2])
    ELSE FLe(delta, FAdd(Frac(1, AtolInv), FMul(Frac(1, RtolInv), ay)))

\* np.isclose(x, y): |x - y| <= atol + rtol * |y| for finite x and y, x == y
\* for infinities, False for NaN
isclose(x, y) ==
    IF IsNaN(x) \/ IsNaN(y) THEN FALSE
    ELSE IF ~IsFinite(x) \/ ~IsFinite(y) THEN x = y
    ELSE IF x = y THEN TRUE
    ELSE WithinTolerance(FAbs(FSub(x, y)), FAbs(y))

\* a Python truth value or the name of the exception raised
Py(b) == IF b THEN "True" ELSE "False"

\* e1 and e2 and ...: the first operand that is not True decides
RECURSIVE AndChain(_)
AndChain(rs) ==
    IF Len(rs) = 1 THEN rs[1]
    ELSE IF rs[1] # "True" THEN rs[1]
    ELSE AndChain(Tail(rs))

\* np.allclose(self.attr, other.attr) for a scalar attribute
ScalarClose(self, other, attr) ==
    IF ~hasattr(self, attr) \/ ~hasattr(other, attr) THEN "AttributeError"
    ELSE Py(isclose(self[attr], other[attr]))

\* np.allclose(self.attr, other.attr) for a list attribute, numpy broadcasting
\* lists of equal length or of length one
ListClose(self, other, attr) ==
    IF ~hasattr(self, attr) \/ ~hasattr(other, attr) THEN "AttributeError"
    ELSE LET x == self[attr]
             y == other[attr]
         IN IF Len(x) = Len(y)
            THEN Py(\A i \in 1..Len(x) : isclose(x[i], y[i]))
            ELSE IF Len(x) = 1 THEN Py(\A i \in 1..Len(y) : isclose(x[1], y[i]))
            ELSE IF Len(y) = 1 THEN Py(\A i \in 1..Len(x) : isclose(x[i], y[1]))
            ELSE "ValueError"

equal_offsets(self, other) ==
    AndChain(<<ScalarClose(self, other, "row_offset"), ScalarClose(self, other, "col_offset"),
               ScalarClose(self, other, "lat_offset"), ScalarClose(self, other, "lon_offset"),
               ScalarClose(self, other, "alt_offset")>>)

equal_scales(self, other) ==
    AndChain(<<ScalarClose(self, other, "row_scale"), ScalarClose(self, other, "col_scale"),
               ScalarClose(self, other, "lat_scale"), ScalarClose(self, other, "lon_scale"),
               ScalarClose(self, other, "alt_scale")>>)

\* mutant: the numerators of the column are not compared
equal_projectionSkipCol(self, other) ==
    AndChain(<<ListClose(self, other, "row_num"), ListClose(self, other, "row_den"),
               ListClose(self, other, "col_den")>>)

equal_projection(self, other) ==
    AndChain(<<ListClose(self, other, "row_num"), ListClose(self, other, "row_den"),
               ListClose(self, other, "col_num"), ListClose(self, other, "col_den")>>)

\* mutant: the numerators of the longitude are not compared
equal_localizationSkipLon(self, other) ==
    IF hasattr(self, "lat_num")
    THEN AndChain(<<ListClose(self, other, "lon_den"),
                    ListClose(self, other, "lat_num"), ListClose(self, other, "lat_den")>>)
    ELSE "True"

equal_localization(self, other) ==
    IF hasattr(self, "lat_num")
    THEN AndChain(<<ListClose(self, other, "lon_num"), ListClose(self, other, "lon_den"),
                    ListClose(self, other, "lat_num"), ListClose(self, other, "lat_den")>>)
    ELSE "True"

\* mutant: offsets and scales are not compared
RPCModel_eqProjectionOnly(self, other) ==
    AndChain(<<equal_projection(self, other), equal_localization(self, other)>>)

\* RPCModel.__eq__
RPCModel_eq(self, other) ==
    AndChain(<<equal_offsets(self, other), equal_scales(self, other),
               equal_projection(self, other), equal_localization(self, other)>>)

\* " ".join([str(x) for x in coeffs])
JoinStr(coeffs) == Join([i \in 1..Len(coeffs) |-> Str(coeffs[i])])

\* RPCModel.to_geotiff_dict
to_geotiff_dict(m) ==
    [LINE_OFF |-> FloatVal(m.row_offset), SAMP_OFF |-> FloatVal(m.col_offset),
     LAT_OFF |-> FloatVal(m.lat_offset), LONG_OFF |-> FloatVal(m.lon_offset),
     HEIGHT_OFF |-> FloatVal(m.alt_offset),
     LINE_SCALE |-> FloatVal(m.row_scale), SAMP_SCALE |-> FloatVal(m.col_scale),
     LAT_SCALE |-> FloatVal(m.lat_scale), LONG_SCALE |-> FloatVal(m.lon_scale),
     HEIGHT_SCALE |-> FloatVal(m.alt_scale),
     LINE_NUM_COEFF |-> StrVal(JoinStr(m.row_num)),
     LINE_DEN_COEFF |-> StrVal(JoinStr(m.row_den)),
     SAMP_NUM_COEFF |-> StrVal(JoinStr(m.col_num)),
     SAMP_DEN_COEFF |-> StrVal(JoinStr(m.col_den))]

\* copy.deepcopy(m) with col_num = [coeff + shift for coeff in col_num]
ShiftedCopy(m, shift) ==
    [m EXCEPT !.col_num = [i \in 1..Len(m.col_num) |-> FAdd(m.col_num[i], shift)]]

(***************************************************************************)
(* Tag mappings compared with one another                                  *)
(***************************************************************************)
\* TagsIdentity for another image extent: offsets and scales differ widely
TagsOtherExtent ==
    [LINE_OFF |-> StrVal(<<"2", "0", "0">>), SAMP_OFF |-> StrVal(<<"3", "0", "0">>),
     LINE_SCALE |-> StrVal(<<"5", "0">>), SAMP_SCALE |-> StrVal(<<"1", "5", "0">>)]
    @@ TagsIdentity

\* TagsIdentity with one offset and one scale moved by 1e-7
TagsNearExtent ==
    [LINE_OFF |-> StrVal(<<"1", "0", "0", ".", "0", "0", "0", "0", "0", "0", "1">>),
     LINE_SCALE |-> StrVal(<<"1", "0", "0", ".", "0", "0", "0", "0", "0", "0", "1">>)]
    @@ TagsIdentity

\* TagsDirect with another numerator of the longitude
TagsDirectOtherLon ==
    [LON_NUM_COEFF |-> StrVal(CoeffString(1 :> <<"0", ".", "7", "5">>))] @@ TagsDirect

\* every numerator coefficient of the column is 200
TagsLargeCoeffs ==
    [SAMP_NUM_COEFF |-> StrVal(Join([i \in 1..NCoeff |-> <<"2", "0", "0">>]))]
    @@ TagsIdentity

\* TagsIdentity with an offset that is not a number
TagsNaN == [LAT_OFF |-> StrVal(<<"n", "a", "n">>)] @@ TagsIdentity

EqTags ==
    {TagsIdentity, TagsOtherExtent, TagsNearExtent, TagsDirect, TagsDirectOtherLon,
     TagsLargeCoeffs, TagsAltitude, TagsNaN}

(***************************************************************************)
(* Building a second model from a first one and comparing the two          *)
(***************************************************************************)
\* the perturbations of test_rpc_close_comparison
Shifts == {Frac(1, 100000000), Frac(1, 1000)}

\* coefficients below this magnitude can carry a shift of 1e-8 in 32 bits
ShiftRange == 20

Shiftable(m, shift) ==
    shift[2] <= 1000 \/ \A i \in 1..Len(m.col_num) : FLt(FAbs(m.col_num[i]), FInt(ShiftRange))

\* rpc1 = RPCModel(t)
Construct(t) ==
    /\ rpc1 = NoModel
    /\ \E r \in {RPCModel(t, "geotiff")} : r.err = "" /\ rpc1' = r.obj
    /\ UNCHANGED <<rpc2, origin, outcome, locvars, rdvars, ccvars, fnvars>>

\* rpc2 = RPCModel(rpc1.to_geotiff_dict())
Rebuild ==
    /\ rpc1 # NoModel /\ origin = NoOrigin
    /\ \E r \in {RPCModel(to_geotiff_dict(rpc1), "geotiff")} : r.err = "" /\ rpc2' = r.obj
    /\ origin' = [kind |-> "rebuilt", shift |-> Zero]
    /\ UNCHANGED <<rpc1, outcome, locvars, rdvars, ccvars, fnvars>>

\* rpc2 = copy.deepcopy(rpc1); rpc2.col_num = [c + shift for c in rpc2.col_num]
DeepCopyShift(shift) ==
    /\ rpc1 # NoModel /\ origin = NoOrigin
    /\ Shiftable(rpc1, shift)
    /\ rpc2' = ShiftedCopy(rpc1, shift)
    /\ origin' = [kind |-> "shifted", shift |-> shift]
    /\ UNCHANGED <<rpc1, outcome, locvars, rdvars, ccvars, fnvars>>

\* rpc2 = RPCModel(t) for another tag mapping
ConstructOther(t) ==
    /\ rpc1 # NoModel /\ origin = NoOrigin
    /\ \E r \in {RPCModel(t, "geotiff")} : r.err = "" /\ rpc2' = r.obj
    /\ origin' = [kind |-> "other", shift |-> Zero]
    /\ UNCHANGED <<rpc1, outcome, locvars, rdvars, ccvars, fnvars>>

\* rpc2 = RPCModel(rpc1.__dict__, dict_format="rpcm")
ConstructFromDict ==
    /\ rpc1 # NoModel /\ origin = NoOrigin
    /\ \E r \in {RPCModel(rpc1, "rpcm")} : r.err = "" /\ rpc2' = r.obj
    /\ origin' = [kind |-> "rpcm", shift |-> Zero]
    /\ UNCHANGED <<rpc1, outcome, locvars, rdvars, ccvars, fnvars>>

\* rpc2 = rpc1
SameObject ==
    /\ rpc1 # NoModel /\ origin = NoOrigin
    /\ rpc2' = rpc1
    /\ origin' = [kind |-> "same", shift |-> Zero]
    /\ UNCHANGED <<rpc1, outcome, locvars, rdvars, ccvars, fnvars>>

Left(left) == IF left = 1 THEN rpc1 ELSE rpc2

Right(left) == IF left = 1 THEN rpc2 ELSE rpc1

\* the four partial comparisons and == with rpc1 (left = 1) or rpc2 (left = 2)
\* as the left operand
Compare(left) ==
    /\ origin # NoOrigin /\ outcome = NoOutcome
    /\ outcome' = [left |-> left,
                   offsets |-> equal_offsets(Left(left), Right(left)),
                   scales |-> equal_scales(Left(left), Right(left)),
                   projection |-> equal_projection(Left(left), Right(left)),
                   localization |-> equal_localization(Left(left), Right(left)),
                   eq |-> RPCModel_eq(Left(left), Right(left))]
    /\ UNCHANGED <<rpc1, rpc2, origin, locvars, rdvars, ccvars, fnvars>>

EqInit ==
    /\ EqIdle
    /\ LocIdle
    /\ RdIdle
    /\ CcIdle
    /\ FnIdle

EqNext ==
    \/ \E t \in EqTags : Construct(t)
    \/ Rebuild
    \/ \E shift \in Shifts : DeepCopyShift(shift)
    \/ \E t \in EqTags : ConstructOther(t)
    \/ ConstructFromDict
    \/ SameObject
    \/ \E left \in {1, 2} : Compare(left)

(***************************************************************************)
(* rpc_file_readers: XML documents                                         *)
(*                                                                         *)
(* A parsed document is a tree of elements [tag, text, children]; text is  *)
(* a sequence of characters, or None for an element without text.          *)
(***************************************************************************)
None == <<"None">>

NoneVal == [t |-> "none", v |-> <<>>]

Elem(tag, text, children) == [tag |-> tag, text |-> text, children |-> children]

Leaf(tag, text) == Elem(tag, text, <<>>)

Node(tag, children) == Elem(tag, None, children)

\* what Element.find returns when nothing matches
NoElement == Elem("", None, <<>>)

RECURSIVE Flatten(_)
Flatten(seqs) == IF seqs = <<>> THEN <<>> ELSE seqs[1] \o Flatten(Tail(seqs))

\* the children of the elements elems that carry the tag t, in document order
ChildrenTagged(elems, t) ==
    Flatten([i \in 1..Len(elems) |-> SelectSeq(elems[i].children, LAMBDA c : c.tag = t)])

\* Element.findall(path): path is the sequence of the tags between the slashes
RECURSIVE FindAll(_, _)
FindAll(elems, path) ==
    IF path = <<>> THEN elems ELSE FindAll(ChildrenTagged(elems, path[1]), Tail(path))

findall(e, path) == FindAll(<<e>>, path)

First(elems) == IF elems = <<>> THEN NoElement ELSE elems[1]

\* Element.find(path): the first match, NoElement for Python's None
find(e, path) == First(findall(e, path))

\* str(x) for x in range(1, 21)
IntStr ==
    <<"1", "2", "3", "4", "5", "6", "7", "8", "9", "10",
      "11", "12", "13", "14", "15", "16", "17", "18", "19", "20">>

\* "{:02d}".format(x) for x in range(1, 21)
IntStr02 ==
    <<"01", "02", "03", "04", "05", "06", "07", "08", "09", "10",
      "11", "12", "13", "14", "15", "16", "17", "18", "19", "20">>

RowCol == <<"ROW", "COL">>

Ok(v) == [err |-> "", val |-> v]

Err(e) == [err |-> e, val |-> NoneVal]

\* ' '.join([element.find(prefix + "_" + x).text for x in indices]):
\* AttributeError when element or one of the children is missing, TypeError
\* when a child has no text
CoeffTexts(found) ==
    IF \E i \in 1..Len(found) : found[i] = NoElement THEN Err("AttributeError")
    ELSE IF \E i \in 1..Len(found) : found[i].text = None THEN Err("TypeError")
    ELSE Ok(StrVal(Join([i \in 1..Len(found) |-> found[i].text])))

parse_coeff(element, prefix, indices) ==
    IF element = NoElement THEN Err("AttributeError")
    ELSE CoeffTexts([i \in 1..Len(indices) |-> find(element, <<prefix \o "_" \o indices[i]>>)])

\* float(text) - shift for a text that has been found
FloatOfText(text, shift) ==
    IF text = None THEN Err("TypeError")
    ELSE IF Len(Split(text)) # 1 \/ ~IsFloatLiteral(Split(text)[1]) THEN Err("ValueError")
    ELSE Ok(FloatVal(FSub(FloatOf(Split(text)[1]), FInt(shift))))

\* float(element.find(tag).text) - shift
float_text(element, tag, shift) ==
    IF element = NoElement \/ find(element, <<tag>>) = NoElement THEN Err("AttributeError")
    ELSE FloatOfText(find(element, <<tag>>).text, shift)

\* the last of a set of positions
Last(S) == CHOOSE i \in S : \A j \in S : j <= i

\* the dictionary m after the assignments steps = <<key, [err, val]>>, or the
\* first exception raised among them
Assigned(steps) ==
    IF \E i \in 1..Len(steps) : steps[i][2].err # ""
    THEN Err(steps[CHOOSE i \in 1..Len(steps) :
                     /\ steps[i][2].err # ""
                     /\ \A j \in 1..(i - 1) : steps[j][2].err = ""][2].err)
    ELSE Ok([k \in {steps[i][1] : i \in 1..Len(steps)} |->
               steps[Last({i \in 1..Len(steps) : steps[i][1] = k})][2].val])

\* the ten offsets and scales, under RFM_Validity with the tag of their key
ValidityScalars ==
    <<"LINE_OFF", "SAMP_OFF", "LAT_OFF", "LONG_OFF", "HEIGHT_OFF",
      "LINE_SCALE", "SAMP_SCALE", "LAT_SCALE", "LONG_SCALE", "HEIGHT_SCALE">>

\* <<key, model (1 direct, 2 inverse), prefix, indices>> in statement order
PleiadesCoeffs ==
    << <<"LON_NUM_COEFF", 1, "SAMP_NUM_COEFF", IntStr>>,
       <<"LON_DEN_COEFF", 1, "SAMP_DEN_COEFF", IntStr>>,
       <<"LAT_NUM_COEFF", 1, "LINE_NUM_COEFF", IntStr>>,
       <<"LAT_DEN_COEFF", 1, "LINE_DEN_COEFF", IntStr>>,
       <<"SAMP_NUM_COEFF", 2, "SAMP_NUM_COEFF", IntStr>>,
       <<"SAMP_DEN_COEFF", 2, "SAMP_DEN_COEFF", IntStr>>,
       <<"LINE_NUM_COEFF", 2, "LINE_NUM_COEFF", IntStr>>,
       <<"LINE_DEN_COEFF", 2, "LINE_DEN_COEFF", IntStr>>,
       <<"ERR_BIAS", 2, "ERR_BIAS", RowCol>> >>

PleiadesNeoCoeffs ==
    << <<"LON_NUM_COEFF", 1, "LON_NUM_COEFF", IntStr>>,
       <<"LON_DEN_COEFF", 1, "LON_DEN_COEFF", IntStr>>,
       <<"LAT_NUM_COEFF", 1, "LAT_NUM_COEFF", IntStr>>,
       <<"LAT_DEN_COEFF", 1, "LAT_DEN_COEFF", IntStr>>,
       <<"SAMP_NUM_COEFF", 2, "SAMP_NUM_COEFF", IntStr>>,
       <<"SAMP_DEN_COEFF", 2, "SAMP_DEN_COEFF", IntStr>>,
       <<"LINE_NUM_COEFF", 2, "LINE_NUM_COEFF", IntStr>>,
       <<"LINE_DEN_COEFF", 2, "LINE_DEN_COEFF", IntStr>>,
       <<"ERR_BIAS", 2, "ERR_BIAS", RowCol>> >>

\* the body shared by read_rpc_xml_pleiades and read_rpc_xml_pleiades_neo:
\* coefficients from the elements d and i, then offsets and scales from v,
\* the offsets named in shifted lowered by one
ReadGlobalRfm(d, i, v, coeffs, shifted) ==
    Assigned([n \in 1..Len(coeffs) |->
                <<coeffs[n][1],
                  parse_coeff(IF coeffs[n][2] = 1 THEN d ELSE i, coeffs[n][3], coeffs[n][4])>>]
             \o [n \in 1..Len(ValidityScalars) |->
                <<ValidityScalars[n],
                  float_text(v, ValidityScalars[n],
                             IF ValidityScalars[n] \in shifted THEN 1 ELSE 0)>>])

\* mutant: no offset is lowered
read_rpc_xml_pleiadesUnshifted(tree) ==
    ReadGlobalRfm(find(tree, <<"Rational_Function_Model", "Global_RFM", "Direct_Model">>),
                  find(tree, <<"Rational_Function_Model", "Global_RFM", "Inverse_Model">>),
                  find(tree, <<"Rational_Function_Model", "Global_RFM", "RFM_Validity">>),
                  PleiadesCoeffs, {})

read_rpc_xml_pleiades(tree) ==
    ReadGlobalRfm(find(tree, <<"Rational_Function_Model", "Global_RFM", "Direct_Model">>),
                  find(tree, <<"Rational_Function_Model", "Global_RFM", "Inverse_Model">>),
                  find(tree, <<"Rational_Function_Model", "Global_RFM", "RFM_Validity">>),
                  PleiadesCoeffs, {"LINE_OFF", "SAMP_OFF"})

read_rpc_xml_pleiades_neo(tree) ==
    ReadGlobalRfm(find(tree, <<"Rational_Function_Model", "Global_RFM", "ImagetoGround_Values">>),
                  find(tree, <<"Rational_Function_Model", "Global_RFM", "GroundtoImage_Values">>),
                  find(tree, <<"Rational_Function_Model", "Global_RFM", "RFM_Validity">>),
                  PleiadesNeoCoeffs, {})

\* <<key, path under RPB/IMAGE>>
WorldViewCoeffs ==
    << <<"LINE_NUM_COEFF", <<"LINENUMCOEFList", "LINENUMCOEF">> >>,
       <<"LINE_DEN_COEFF", <<"LINEDENCOEFList", "LINEDENCOEF">> >>,
       <<"SAMP_NUM_COEFF", <<"SAMPNUMCOEFList", "SAMPNUMCOEF">> >>,
       <<"SAMP_DEN_COEFF", <<"SAMPDENCOEFList", "SAMPDENCOEF">> >> >>

\* <<key, tag under RPB/IMAGE>>
WorldViewScalars ==
    << <<"ERR_BIAS", "ERRBIAS">>,
       <<"LINE_OFF", "LINEOFFSET">>, <<"SAMP_OFF", "SAMPOFFSET">>,
       <<"LAT_OFF", "LATOFFSET">>, <<"LONG_OFF", "LONGOFFSET">>,
       <<"HEIGHT_OFF", "HEIGHTOFFSET">>,
       <<"LINE_SCALE", "LINESCALE">>, <<"SAMP_SCALE", "SAMPSCALE">>,
       <<"LAT_SCALE", "LATSCALE">>, <<"LONG_SCALE", "LONGSCALE">>,
       <<"HEIGHT_SCALE", "HEIGHTSCALE">> >>

\* the text of an element that was looked up, None kept as it is
TextOf(l) ==
    IF l = NoElement THEN Err("AttributeError")
    ELSE Ok(IF l.text = None THEN NoneVal ELSE StrVal(l.text))

\* l = im.find(path); m[key] = l.text
find_text(im, path) == IF im = NoElement THEN Err("AttributeError") ELSE TextOf(find(im, path))

ReadImage(im) ==
    Assigned([n \in 1..Len(WorldViewCoeffs) |->
                <<WorldViewCoeffs[n][1], find_text(im, WorldViewCoeffs[n][2])>>]
             \o [n \in 1..Len(WorldViewScalars) |->
                <<WorldViewScalars[n][1], float_text(im, WorldViewScalars[n][2], 0)>>])

\* mutant: the record also carries the projection coefficients under the
\* keys of the direct model
read_rpc_xml_worldviewWithDirect(tree) ==
    LET r == ReadImage(find(tree, <<"RPB", "IMAGE">>))
    IN IF r.err # "" THEN r
       ELSE Ok(r.val @@ [LON_NUM_COEFF |-> r.val.SAMP_NUM_COEFF,
                         LON_DEN_COEFF |-> r.val.SAMP_DEN_COEFF,
                         LAT_NUM_COEFF |-> r.val.LINE_NUM_COEFF,
                         LAT_DEN_COEFF |-> r.val.LINE_DEN_COEFF])

read_rpc_xml_worldview(tree) == ReadImage(find(tree, <<"RPB", "IMAGE">>))

\* <<key, tag under bandID>>
EnmapScalars ==
    << <<"LINE_OFF", "ROW_OFF">>, <<"SAMP_OFF", "COL_OFF">>, <<"LAT_OFF", "LAT_OFF">>,
       <<"LONG_OFF", "LONG_OFF">>, <<"HEIGHT_OFF", "HEIGHT_OFF">>,
       <<"LINE_SCALE", "ROW_SCALE">>, <<"SAMP_SCALE", "COL_SCALE">>,
       <<"LAT_SCALE", "LAT_SCALE">>, <<"LONG_SCALE", "LONG_SCALE">>,
       <<"HEIGHT_SCALE", "HEIGHT_SCALE">> >>

\* <<key, prefix under bandID>>
EnmapCoeffs ==
    << <<"LINE_NUM_COEFF", "ROW_NUM">>, <<"LINE_DEN_COEFF", "ROW_DEN">>,
       <<"SAMP_NUM_COEFF", "COL_NUM">>, <<"SAMP_DEN_COEFF", "COL_DEN">> >>

\* the model of one band
ReadBand(rpc_model) ==
    Assigned([n \in 1..Len(EnmapScalars) |->
                <<EnmapScalars[n][1], float_text(rpc_model, EnmapScalars[n][2], 0)>>]
             \o [n \in 1..Len(EnmapCoeffs) |->
                <<EnmapCoeffs[n][1], parse_coeff(rpc_model, EnmapCoeffs[n][2], IntStr02)>>])

\* mutant: every key holds the record of the first band
ReadBandsFirst(rpc_models) ==
    Assigned([band \in 1..Len(rpc_models) |-> <<IntStr[band], ReadBand(rpc_models[1])>>])

\* m[str(band + 1)] = model for band, rpc_model in enumerate(rpc_models)
ReadBands(rpc_models) ==
    Assigned([band \in 1..Len(rpc_models) |-> <<IntStr[band], ReadBand(rpc_models[band])>>])

read_rpc_xml_enmap(tree) ==
    IF find(tree, <<"product", "navigation", "RPC">>) = NoElement THEN Err("AttributeError")
    ELSE ReadBands(findall(find(tree, <<"product", "navigation", "RPC">>), <<"bandID">>))

PHR_SENSOR == <<"P", "H", "R", "_", "S", "E", "N", "S", "O", "R">>

S6_SENSOR == <<"S", "6", "_", "S", "E", "N", "S", "O", "R">>

S7_SENSOR == <<"S", "7", "_", "S", "E", "N", "S", "O", "R">>

PNEO_SENSOR == <<"P", "N", "E", "O", "_", "S", "E", "N", "S", "O", "R">>

WV01 == <<"W", "V", "0", "1">>

WV02 == <<"W", "V", "0", "2">>

WV03 == <<"W", "V", "0", "3">>

EnMAP == <<"E", "n", "M", "A", "P">>

\* a document: well-formed with a root element, or not well-formed
WellFormed(root) == [wellformed |-> TRUE, root |-> root]

Malformed == [wellformed |-> FALSE, root |-> NoElement]

\* the message of ElementTree.ParseError, which knows the content only
ParseErrorMsg == <<"n", "o", "t", " ", "w", "e", "l", "l", "-", "f", "o", "r", "m", "e", "d">>

Raise(e, msg) == [kind |-> e, msg |-> msg, value |-> <<>>]

Return(value) == [kind |-> "value", msg |-> <<>>, value |-> value]

\* parsed_rpc stays None
NotParsed == Ok(NoneVal)

\* mutant: each marker is looked at whatever the markers before it
DispatchAnyMarker(tree, a, b, c) ==
    IF a # NoElement /\ a.text \in {PHR_SENSOR, S6_SENSOR, S7_SENSOR}
    THEN read_rpc_xml_pleiades(tree)
    ELSE IF a # NoElement /\ a.text \in {PNEO_SENSOR} THEN read_rpc_xml_pleiades_neo(tree)
    ELSE IF b # NoElement /\ (b.text = WV02 \/ b.text = WV01 \/ b.text = WV03)
    THEN read_rpc_xml_worldview(tree)
    ELSE IF c # NoElement /\ c.text = EnMAP THEN read_rpc_xml_enmap(tree)
    ELSE NotParsed

\* the dialect chosen from the markers a, b and c
Dispatch(tree, a, b, c) ==
    IF a # NoElement
    THEN IF a.text \in {PHR_SENSOR, S6_SENSOR, S7_SENSOR} THEN read_rpc_xml_pleiades(tree)
         ELSE IF a.text \in {PNEO_SENSOR} THEN read_rpc_xml_pleiades_neo(tree)
         ELSE NotParsed
    ELSE IF b # NoElement
    THEN IF b.text = WV02 \/ b.text = WV01 \/ b.text = WV03 THEN read_rpc_xml_worldview(tree)
         ELSE NotParsed
    ELSE IF c # NoElement
    THEN IF c.text = EnMAP THEN read_rpc_xml_enmap(tree)
         ELSE NotParsed
    ELSE NotParsed

\* if not parsed_rpc: raise NotImplementedError(); return parsed_rpc
ReturnParsed(parsed_rpc) ==
    IF parsed_rpc.err # "" THEN Raise(parsed_rpc.err, <<>>)
    ELSE IF parsed_rpc.val = NoneVal \/ DOMAIN parsed_rpc.val = {}
         THEN Raise("NotImplementedError", <<>>)
    ELSE Return(parsed_rpc.val)

read_rpc_xml(rpc_content) ==
    IF ~rpc_content.wellformed THEN Raise("ParseError", ParseErrorMsg)
    ELSE ReturnParsed(Dispatch(rpc_content.root,
             find(rpc_content.root, <<"Metadata_Identification", "METADATA_PROFILE">>),
             find(rpc_content.root, <<"IMD", "IMAGE", "SATID">>),
             find(rpc_content.root, <<"specific", "mission">>)))

\* str.endswith(suffix)
EndsWith(str, suffix) ==
    Len(suffix) <= Len(str) /\ SubSeq(str, Len(str) - Len(suffix) + 1, Len(str)) = suffix

\* 'XML file {} not supported'.format(rpc_file)
NotSupportedMsg(rpc_file) ==
    <<"X", "M", "L", " ", "f", "i", "l", "e", " ">> \o rpc_file \o <<" ", "n", "o", "t", " ", "s", "u", "p", "p", "o", "r", "t", "e", "d">>

\* except NotImplementedError: raise NotImplementedError('XML file ...')
Reraised(r, rpc_file) ==
    IF r.kind = "NotImplementedError"
    THEN Raise("NotImplementedError", NotSupportedMsg(rpc_file))
    ELSE r

IsXmlName(rpc_file) == EndsWith(Lower(rpc_file), <<"x", "m", "l">>)

(***************************************************************************)
(* rpc_file_readers: the ikonos text format                                *)
(*                                                                         *)
(* The content of a text file is its sequence of characters.               *)
(***************************************************************************)
\* the characters of a string literal
Chars(str) == [i \in 1..Len(str) |-> SubSeq(str, i, i)]

\* the string made of a sequence of characters
RECURSIVE Cat(_)
Cat(chars) == IF chars = <<>> THEN "" ELSE chars[1] \o Cat(Tail(chars))

\* the position of S nearest to mid
Nearest(S, mid) == CHOOSE a \in S : \A b \in S : Abs(a - mid) <= Abs(b - mid)

RECURSIVE SplitLines(_)
\* the pieces of s between the newlines, which stand at the positions nl
SplitAt(s, nl) ==
    IF nl = {} THEN <<s>>
    ELSE SplitLines(SubSeq(s, 1, Nearest(nl, (Len(s) + 1) \div 2) - 1))
         \o SplitLines(SubSeq(s, Nearest(nl, (Len(s) + 1) \div 2) + 1, Len(s)))

\* str.split('\n'): the pieces of s between its newlines, empty ones kept
SplitLines(s) == SplitAt(s, {i \in 1..Len(s) : s[i] = "\n"})

IsKeyChar(c) ==
    c = "_" \/ IsDigit(c) \/ \E k \in 1..Len(UpperCase) : UpperCase[k] = c \/ LowerCase[k] = c

\* re.sub(r"[^a-zA-Z0-9_]", "", tok)
KeyOf(tok) == Cat(SelectSeq(tok, IsKeyChar))

\* the assignments d[k] = ll[1] of the loop over the lines, in order
Entries(kept) ==
    SubSeq([n \in 1..Len(kept) |-> <<KeyOf(kept[n][1]), Ok(StrVal(kept[n][2]))>>],
           1, Len(kept))

IkonosEntries(lines) ==
    Entries(SelectSeq([n \in 1..Len(lines) |-> Split(lines[n])], LAMBDA ll : Len(ll) > 1))

\* mutant: the values are joined from the last index to the first
ikonos_parse_coeffDescending(dic, prefix, indices) ==
    IF \E x \in 1..Len(indices) : (prefix \o "_" \o indices[x]) \notin DOMAIN dic
    THEN Err("KeyError")
    ELSE Ok(StrVal(Join([x \in 1..Len(indices) |->
                           dic[prefix \o "_" \o indices[Len(indices) + 1 - x]].v])))

\* ' '.join([dic["%s_%s" % (prefix, str(x))] for x in indices])
ikonos_parse_coeff(dic, prefix, indices) ==
    IF \E x \in 1..Len(indices) : (prefix \o "_" \o indices[x]) \notin DOMAIN dic
    THEN Err("KeyError")
    ELSE Ok(StrVal(Join([x \in 1..Len(indices) |-> dic[prefix \o "_" \o indices[x]].v])))

IkonosCoeffs == <<"SAMP_NUM_COEFF", "SAMP_DEN_COEFF", "LINE_NUM_COEFF", "LINE_DEN_COEFF">>

IkonosExtended == <<"LON_NUM_COEFF", "LON_DEN_COEFF", "LAT_NUM_COEFF", "LAT_DEN_COEFF">>

\* the coefficient strings added to the dictionary d read from the lines
IkonosJoined(d) ==
    Assigned([n \in 1..Len(IkonosCoeffs) |->
                <<IkonosCoeffs[n], ikonos_parse_coeff(d, IkonosCoeffs[n], IntStr)>>]
             \o (IF "LON_NUM_COEFF_1" \in DOMAIN d
                 THEN [n \in 1..Len(IkonosExtended) |->
                         <<IkonosExtended[n], ikonos_parse_coeff(d, IkonosExtended[n], IntStr)>>]
                 ELSE <<>>))

\* d with the coefficient strings, or the exception raised on the way
IkonosResult(d, joined) == IF joined.err # "" THEN joined ELSE Ok(joined.val @@ d)

IkonosDict(d) == IkonosResult(d, IkonosJoined(d))

read_rpc_ikonos(rpc_content) ==
    IkonosDict(Assigned(IkonosEntries(SplitLines(rpc_content))).val)

\* what a call gives to its caller: the value returned or the exception
CallResult(r) == IF r.err # "" THEN Raise(r.err, <<>>) ELSE Return(r.val)

(***************************************************************************)
(* rpc_file_readers: the json branch of read_rpc_file                      *)
(*                                                                         *)
(* The content of a json file is what json.load makes of it: an object is  *)
(* a function from keys to values, a number is [t |-> "int" or "float", v],*)
(* an array is [t |-> "list", v |-> sequence of values].                   *)
(***************************************************************************)
IntVal(n) == [t |-> "int", v |-> n]

ListVal(xs) == [t |-> "list", v |-> xs]

\* str(x) for a number x
StrNum(x) ==
    IF x.t = "int" THEN (IF x.v < 0 THEN <<"-">> ELSE <<>>) \o NatDigits(Abs(x.v))
    ELSE Str(x.v)

\* rpc[a] for the object rpc = json['rpc']
JsonItem(obj, a) == IF a \notin DOMAIN obj THEN Err("KeyError") ELSE Ok(obj[a])

\* " ".join([str(x) for x in rpc[a]])
JsonJoined(obj, a) ==
    IF a \notin DOMAIN obj THEN Err("KeyError")
    ELSE IF obj[a].t # "list" THEN Err("TypeError")
    ELSE Ok(StrVal(Join([i \in 1..Len(obj[a].v) |-> StrNum(obj[a].v[i])])))

\* the dictionary d filled from obj = json['rpc']
JsonDict(obj) ==
    Assigned([n \in 1..Len(OffsetScaleKeys) |->
                <<OffsetScaleKeys[n][1], JsonItem(obj, OffsetScaleKeys[n][2])>>]
             \o [n \in 1..Len(ProjectionKeys) |->
                <<ProjectionKeys[n][1], JsonJoined(obj, ProjectionKeys[n][2])>>])

\* "JSON file {} does not contain 'rpc' key".format(rpc_file)
NoRpcKeyMsg(rpc_file) ==
    Chars("JSON file ") \o rpc_file \o Chars(" does not contain 'rpc' key")

JsonDecodeMsg == Chars("Expecting value")

\* the json branch: json.load, the assertion, the dictionary
ReadJson(content, rpc_file) ==
    IF ~content.wellformed THEN Raise("JSONDecodeError", JsonDecodeMsg)
    ELSE IF "rpc" \notin DOMAIN content.value
    THEN Raise("AssertionError", NoRpcKeyMsg(rpc_file))
    ELSE CallResult(JsonDict(content.value.rpc))

IsJsonName(rpc_file) == EndsWith(Lower(rpc_file), <<"j", "s", "o", "n">>)

\* read_rpc_file: the format is decided from the end of the file name
read_rpc_file(f) ==
    IF IsXmlName(f.name) THEN Reraised(read_rpc_xml(f.content), f.name)
    ELSE IF IsJsonName(f.name) THEN ReadJson(f.content, f.name)
    ELSE CallResult(read_rpc_ikonos(f.content.text))

(***************************************************************************)
(* The sidecar files read                                                  *)
(***************************************************************************)
\* the leaves prefix_x whose texts are the numbers base + 1, base + 2, ...
CoeffLeaves(prefix, indices, base) ==
    [x \in 1..Len(indices) |-> Leaf(prefix \o "_" \o indices[x], NatDigits(base + x))]

\* a list of leaves with the leaf tagged t removed, emptied, made
\* non-numeric or blank
Damaged(leaves, how, t) ==
    IF how = "missing" THEN SelectSeq(leaves, LAMBDA l : l.tag # t)
    ELSE [n \in 1..Len(leaves) |->
            IF leaves[n].tag # t THEN leaves[n]
            ELSE IF how = "empty" THEN Leaf(t, None)
            ELSE IF how = "text" THEN Leaf(t, <<"n", "/", "a">>)
            ELSE IF how = "blank" THEN Leaf(t, <<" ">>)
            ELSE leaves[n]]

\* what is wrong with a payload: <<the list damaged, how>>
Damages ==
    {<<"none", "none">>, <<"scalar", "missing">>, <<"scalar", "empty">>,
     <<"scalar", "text">>, <<"coeff", "missing">>, <<"coeff", "empty">>,
     <<"coeff", "blank">>}

How(dmg, list) == IF dmg[1] = list THEN dmg[2] ELSE "none"

\* the coefficient leaves of the model (1 direct, 2 inverse) of a table
ModelLeaves(coeffs, model) ==
    Flatten([n \in 1..Len(coeffs) |->
               IF coeffs[n][2] = model
               THEN CoeffLeaves(coeffs[n][3], coeffs[n][4], 100 * n)
               ELSE <<>>])

\* the Rational_Function_Model element of a Pleiades or Pleiades Neo document
GlobalRfm(dtag, itag, coeffs, dmg) ==
    Node("Rational_Function_Model", <<Node("Global_RFM",
        <<Node(dtag, ModelLeaves(coeffs, 1)),
          Node(itag, Damaged(ModelLeaves(coeffs, 2), How(dmg, "coeff"), "LINE_NUM_COEFF_1")),
          Node("RFM_Validity",
               Damaged([n \in 1..Len(ValidityScalars) |->
                           Leaf(ValidityScalars[n], NatDigits(10 + n))],
                       How(dmg, "scalar"), "LAT_OFF"))>>)>>)

\* twenty numbers base + 1, ... separated by spaces
CoeffText(base) == Join([x \in 1..NCoeff |-> NatDigits(base + x)])

\* the RPB element of a WorldView document
Rpb(dmg) ==
    Node("RPB", <<Node("IMAGE",
        [n \in 1..Len(WorldViewCoeffs) |->
            Node(WorldViewCoeffs[n][2][1],
                 Damaged(<<Leaf(WorldViewCoeffs[n][2][2], CoeffText(100 * n))>>,
                         How(dmg, "coeff"), "LINENUMCOEF"))]
        \o Damaged([n \in 1..Len(WorldViewScalars) |->
                       Leaf(WorldViewScalars[n][2], NatDigits(10 + n))],
                   How(dmg, "scalar"), "LATOFFSET"))>>)

\* one bandID element of an EnMAP document
BandId(band, dmg) ==
    Node("bandID",
         Damaged([n \in 1..Len(EnmapScalars) |->
                     Leaf(EnmapScalars[n][2], NatDigits(10 * band + n))],
                 How(dmg, "scalar"), "LAT_OFF")
         \o Damaged(Flatten([n \in 1..Len(EnmapCoeffs) |->
                               CoeffLeaves(EnmapCoeffs[n][2], IntStr02, 1000 * band + 100 * n)]),
                    How(dmg, "coeff"), "ROW_NUM_01"))

\* the product element of an EnMAP document of so many bands
Product(bands, dmg) ==
    Node("product", <<Node("navigation",
        <<Node("RPC", [band \in 1..bands |-> BandId(band, dmg)])>>)>>)

MaxBands == 2

Payloads ==
    {[kind |-> k, bands |-> 0] : k \in {"none", "pleiades", "neo", "worldview"}}
    \cup {[kind |-> "enmap", bands |-> n] : n \in 0..MaxBands}

PayloadElements(payload, dmg) ==
    IF payload.kind = "pleiades"
    THEN <<GlobalRfm("Direct_Model", "Inverse_Model", PleiadesCoeffs, dmg)>>
    ELSE IF payload.kind = "neo"
    THEN <<GlobalRfm("ImagetoGround_Values", "GroundtoImage_Values", PleiadesNeoCoeffs, dmg)>>
    ELSE IF payload.kind = "worldview" THEN <<Rpb(dmg)>>
    ELSE IF payload.kind = "enmap" THEN <<Product(payload.bands, dmg)>>
    ELSE <<>>

\* a marker that the document does not have
Absent == <<"absent">>

SPOT5 == <<"S", "P", "O", "T", "5", "_", "S", "E", "N", "S", "O", "R">>

GE01 == <<"G", "E", "0", "1">>

PRISMA == <<"P", "R", "I", "S", "M", "A">>

\* values of Metadata_Identification/METADATA_PROFILE, None for an empty element
ProfileValues == {Absent, PHR_SENSOR, S6_SENSOR, S7_SENSOR, PNEO_SENSOR, SPOT5, None}

\* values of IMD/IMAGE/SATID
SatIdValues == {Absent, WV01, WV02, WV03, GE01}

\* values of specific/mission
MissionValues == {Absent, EnMAP, PRISMA}

Markers(a, b, c) ==
    (IF a = Absent THEN <<>>
     ELSE <<Node("Metadata_Identification", <<Leaf("METADATA_PROFILE", a)>>)>>)
    \o (IF b = Absent THEN <<>>
        ELSE <<Node("IMD", <<Node("IMAGE", <<Leaf("SATID", b)>>)>>)>>)
    \o (IF c = Absent THEN <<>>
        ELSE <<Node("specific", <<Leaf("mission", c)>>)>>)

Document(a, b, c, payload, dmg) ==
    WellFormed(Node("document", Markers(a, b, c) \o PayloadElements(payload, dmg)))

\* one set of markers per dialect, and none
DialectMarkers ==
    {<<PHR_SENSOR, Absent, Absent>>, <<PNEO_SENSOR, Absent, Absent>>,
     <<Absent, WV02, Absent>>, <<Absent, Absent, EnMAP>>, <<Absent, Absent, Absent>>}

\* every combination of markers over an undamaged payload, every payload and
\* every damage under the markers of each dialect, and a malformed document
Contents ==
    {Document(a, b, c, payload, <<"none", "none">>) :
        a \in ProfileValues, b \in SatIdValues, c \in MissionValues,
        payload \in {p \in Payloads : p.kind # "neo" /\ p.bands # 1}}
    \cup {Document(m[1], m[2], m[3], payload, dmg) :
            m \in DialectMarkers, payload \in Payloads, dmg \in Damages}
    \cup {Malformed}

FileNames == {<<"r", "p", "c", ".", "x", "m", "l">>, <<"R", "P", "C", ".", "X", "M", "L">>}

\* one line of an ikonos file: "KEY: value unit"
IkonosLine(key, value, unit) == Chars(key) \o <<":", " ">> \o value \o <<" ">> \o Chars(unit)

\* the lines of a list of lines with the line of key t removed, left without
\* a value or given a non-numeric one
DamagedLines(lines, how, t) ==
    IF how = "missing" THEN SelectSeq(lines, LAMBDA l : Split(l)[1] # Chars(t) \o <<":">>)
    ELSE [n \in 1..Len(lines) |->
            IF Split(lines[n])[1] # Chars(t) \o <<":">> THEN lines[n]
            ELSE IF how = "empty" THEN Chars(t) \o <<":">>
            ELSE IF how = "text" THEN IkonosLine(t, <<"n", "/", "a">>, "pixels")
            ELSE lines[n]]

IkonosScalarLines ==
    [n \in 1..Len(ValidityScalars) |->
        IkonosLine(ValidityScalars[n], <<"+">> \o NatDigits(10 + n) \o <<".", "5", "0">>,
                   "pixels")]

IkonosCoeffLines(keys, base) ==
    Flatten([n \in 1..Len(keys) |->
               [x \in 1..NCoeff |->
                   IkonosLine(keys[n] \o "_" \o IntStr[x],
                              <<"+">> \o NatDigits(base + 100 * n + x) \o <<"E", "-", "0", "2">>,
                              "")]])

RECURSIVE JoinLines(_)
\* the text of a file with the given lines, each ended by a newline
JoinLines(lines) ==
    IF lines = <<>> THEN <<>>
    ELSE IF Len(lines) = 1 THEN lines[1] \o <<"\n">>
    ELSE JoinLines(SubSeq(lines, 1, Len(lines) \div 2))
         \o JoinLines(SubSeq(lines, Len(lines) \div 2 + 1, Len(lines)))

\* an ikonos file, extended with the direct model or not, with a damage
IkonosText(extended, dmg) ==
    JoinLines(DamagedLines(IkonosScalarLines, How(dmg, "scalar"), "LAT_OFF")
              \o DamagedLines(IkonosCoeffLines(IkonosCoeffs, 0), How(dmg, "coeff"),
                              "LINE_NUM_COEFF_1")
              \o (IF extended THEN IkonosCoeffLines(IkonosExtended, 1000) ELSE <<>>))

\* the lines of an undamaged ikonos file
IkonosLines(extended) ==
    IkonosScalarLines \o IkonosCoeffLines(IkonosCoeffs, 0)
    \o (IF extended THEN IkonosCoeffLines(IkonosExtended, 1000) ELSE <<>>)

Reverse(lines) == [n \in 1..Len(lines) |-> lines[Len(lines) + 1 - n]]

\* ikonos files with the lines last to first, and extended files without the
\* line of one coefficient of the direct model
IkonosVariants ==
    {JoinLines(Reverse(IkonosLines(extended))) : extended \in BOOLEAN}
    \cup {JoinLines(DamagedLines(IkonosLines(TRUE), "missing", t)) :
             t \in {"LON_NUM_COEFF_1", "LAT_DEN_COEFF_20"}}

\* the text files: ikonos files and an empty file
TextContents ==
    {[text |-> IkonosText(FALSE, dmg)] : dmg \in Damages}
    \cup {[text |-> IkonosText(TRUE, <<"none", "none">>)], [text |-> <<>>]}
    \cup {[text |-> t] : t \in IkonosVariants}

TextNames == {Chars("rpc_IKONOS.txt"), Chars("basic_l1a_RPC.TXT")}

\* the value of the key 'rpc' of a json file: the attributes of a model,
\* integers among the coefficients, one attribute missing or of another type
JsonRpc(dmg) ==
    LET scalars == [n \in 1..Len(OffsetScaleKeys) |->
                      <<OffsetScaleKeys[n][2],
                        IF How(dmg, "scalar") = "text" /\ OffsetScaleKeys[n][2] = "lat_offset"
                        THEN StrVal(<<"n", "/", "a">>)
                        ELSE FloatVal(Frac(2 * (10 + n) + 1, 2))>>]
        lists == [n \in 1..Len(ProjectionKeys) |->
                    <<ProjectionKeys[n][2],
                      IF How(dmg, "coeff") = "empty" /\ ProjectionKeys[n][2] = "row_num"
                      THEN FloatVal(Zero)
                      ELSE ListVal([x \in 1..NCoeff |->
                                      IF x = 1 THEN IntVal(n) ELSE FloatVal(Frac(100 * n + x, 100))])>>]
        all == scalars \o lists
        gone == IF How(dmg, "scalar") \in {"missing", "empty"} THEN {"lat_offset"}
                ELSE IF How(dmg, "coeff") = "missing" THEN {"row_num"}
                ELSE {}
    IN [a \in {all[i][1] : i \in 1..Len(all)} \ gone |->
          all[CHOOSE i \in 1..Len(all) : all[i][1] = a][2]]

JsonContents ==
    {[wellformed |-> TRUE, value |-> [rpc |-> JsonRpc(dmg)]] : dmg \in Damages}
    \cup {[wellformed |-> TRUE, value |-> [model |-> JsonRpc(<<"none", "none">>)]],
          [wellformed |-> FALSE, value |-> <<>>]}

JsonNames == {Chars("rpc.json"), Chars("RPC.JSON")}

\* XML documents under the names ending in xml, where a text is one more
\* malformed document; json values under the names ending in json; texts
\* under the other names
Files ==
    {[name |-> n, content |-> c] : n \in FileNames, c \in Contents}
    \cup {[name |-> n, content |-> c] : n \in JsonNames, c \in JsonContents}
    \cup {[name |-> n, content |-> c] : n \in TextNames, c \in TextContents}

(***************************************************************************)
(* Reading a sidecar file                                                  *)
(***************************************************************************)
\* rd = read_rpc_file(file)
ReadRpcFile ==
    /\ rd = NoRead
    /\ rd' = read_rpc_file(file)
    /\ UNCHANGED <<file, locvars, eqvars, ccvars, fnvars>>

RdInit ==
    /\ file \in Files
    /\ rd = NoRead
    /\ LocIdle
    /\ EqIdle
    /\ CcIdle
    /\ FnIdle

RdNext == ReadRpcFile

(***************************************************************************)
(* Threads calling one shared model                                        *)
(***************************************************************************)
Threads == {"t1", "t2"}

NoThread ==
    [op |-> "none", rn |-> FALSE, pc |-> "idle", stage |-> "", it |-> NoFrame,
     mid |-> <<>>, result |-> NoResult]

\* mutant: localization keeps the normalisation it applied in the model
SelfAfterNormalised(m, op) ==
    IF op = "localization" THEN [m EXCEPT !.col_offset = Zero, !.col_scale = One] ELSE m

\* self.__dict__ after a statement of a call: projection, localization,
\* localization_iterative, incidence_angles, to_geotiff_dict and the equal_*
\* predicates read the attributes of self and assign none
SelfAfter(m, op) == m

\* the callers' arrays after a statement of a call: np.asarray(v) - offset
\* and -col ** 0 make new arrays, and lon += a1 * EPS adds into the new one
ArraysAfter(inp, op) == inp

\* z + 1*s with s = 100
Raise100(alt) == [i \in 1..Len(alt) |-> FAdd(alt[i], FInt(100))]

\* the four comparisons and ==, on self and other
Comparisons(self, other) ==
    [kind |-> "value",
     offsets |-> equal_offsets(self, other), scales |-> equal_scales(self, other),
     projection |-> equal_projection(self, other),
     localization |-> equal_localization(self, other),
     eq |-> RPCModel_eq(self, other)]

\* thread t moves to the state rec by one statement of its call
Advance(t, rec) ==
    /\ calls' = [calls EXCEPT ![t] = rec]
    /\ shared' = SelfAfter(shared, rec.op)
    /\ inputs' = ArraysAfter(inputs, rec.op)
    /\ UNCHANGED <<given, locvars, eqvars, rdvars, fnvars>>

\* col, row = self.projection(lon, lat, alt)
CallProjection(t) ==
    /\ calls[t].pc = "idle"
    /\ "projection" \in given.ops[t]
    /\ \E p \in {projection(shared, inputs.x, inputs.y, inputs.alt)} :
         Advance(t, [NoThread EXCEPT !.op = "projection", !.pc = "returned",
                       !.result = [kind |-> "value", col |-> p.col, row |-> p.row]])

\* ncol, nrow, nalt of localization
Normalized(m, col, row, alt) ==
    [col |-> Normalize(col, m.col_offset, m.col_scale),
     row |-> Normalize(row, m.row_offset, m.row_scale),
     alt |-> Normalize(alt, m.alt_offset, m.alt_scale)]

\* the thread after the first statements of localization
Entered(m, n, rn) ==
    IF ~UsesDirectModel(m)
    THEN [NoThread EXCEPT !.op = "localization", !.rn = rn, !.pc = "loop",
                          !.it = IterativeEntry(m, n.col, n.row, n.alt)]
    ELSE [NoThread EXCEPT !.op = "localization", !.rn = rn, !.pc = "returned",
                          !.result = Returned(m, Rfm(m.lon_num, m.lon_den, n.row, n.col, n.alt),
                                                 Rfm(m.lat_num, m.lat_den, n.row, n.col, n.alt),
                                              rn)]

\* self.localization(col, row, alt, return_normalized): the direct model
\* answers at once, the iterative inversion enters its loop
CallLocalization(t, rn) ==
    /\ calls[t].pc = "idle"
    /\ "localization" \in given.ops[t]
    /\ \E n \in {Normalized(shared, inputs.x, inputs.y, inputs.alt)} :
         \E rec \in {Entered(shared, n, rn)} : Advance(t, rec)

\* one pass through the while loop of thread t
ThreadIterate(t) ==
    /\ calls[t].pc = "loop"
    /\ ~Converged(calls[t].it)
    /\ ~CapExceeded(calls[t].it)
    /\ \E f \in {LoopBody(shared, calls[t].it)} : Advance(t, [calls[t] EXCEPT !.it = f])

ThreadRaise(t) ==
    /\ calls[t].pc = "loop"
    /\ ~Converged(calls[t].it)
    /\ CapExceeded(calls[t].it)
    /\ Advance(t, [calls[t] EXCEPT !.pc = "raised",
                                   !.result = Raised("MaxLocalizationIterationsError")])

\* the thread after a localization of incidence_angles answered r: lon0, lat0
\* are kept for the second localization, lon1, lat1 complete the result
Localized(th, r) ==
    IF r.kind # "value" THEN [th EXCEPT !.pc = "raised", !.result = r]
    ELSE IF th.stage = "first"
    THEN [th EXCEPT !.pc = "localized",
                    !.mid = [col |-> th.mid.col, row |-> th.mid.row,
                             lon0 |-> r.lon, lat0 |-> r.lat]]
    ELSE [th EXCEPT !.pc = "returned",
                    !.result = [kind |-> "value", lon0 |-> th.mid.lon0, lat0 |-> th.mid.lat0,
                                lon1 |-> r.lon, lat1 |-> r.lat]]

\* the while loop of thread t ends: localization returns to its caller
ThreadReturn(t) ==
    /\ calls[t].pc = "loop"
    /\ Converged(calls[t].it)
    /\ \E r \in {Returned(shared, calls[t].it.lon, calls[t].it.lat, calls[t].rn)} :
         IF calls[t].op = "localization"
         THEN Advance(t, [calls[t] EXCEPT !.pc = "returned", !.result = r])
         ELSE \E rec \in {Localized(calls[t], r)} : Advance(t, rec)

\* self.to_geotiff_dict()
CallToGeotiffDict(t) ==
    /\ calls[t].pc = "idle"
    /\ "to_geotiff_dict" \in given.ops[t]
    /\ \E d \in {to_geotiff_dict(shared)} :
         Advance(t, [NoThread EXCEPT !.op = "to_geotiff_dict", !.pc = "returned",
                       !.result = [kind |-> "value", dict |-> d]])

\* self.equal_offsets(self), ..., self == self
CallEqual(t) ==
    /\ calls[t].pc = "idle"
    /\ "equal" \in given.ops[t]
    /\ \E r \in {Comparisons(shared, shared)} :
         Advance(t, [NoThread EXCEPT !.op = "equal", !.pc = "returned", !.result = r])

\* incidence_angles, first statement: col, row = self.projection(lon, lat, z)
CallIncidenceAngles(t) ==
    /\ calls[t].pc = "idle"
    /\ "incidence_angles" \in given.ops[t]
    /\ \E p \in {projection(shared, inputs.x, inputs.y, inputs.alt)} :
         Advance(t, [NoThread EXCEPT !.op = "incidence_angles", !.pc = "projected", !.mid = p])

\* z + 0*s for the first localization of incidence_angles, z + 1*s for the
\* second
StageAlt(th, alt) == IF th.pc = "projected" THEN alt ELSE Raise100(alt)

\* lon0, lat0 = self.localization(col, row, z + 0*s), then
\* lon1, lat1 = self.localization(col, row, z + 1*s): either enters the while
\* loop or is answered by the direct model; the angles are computed from
\* (lon0, lat0, z) and (lon1, lat1, z + s)
IncidenceLocalize(t) ==
    /\ calls[t].pc \in {"projected", "localized"}
    /\ \E n \in {Normalized(shared, calls[t].mid.col, calls[t].mid.row,
                             StageAlt(calls[t], inputs.alt))} :
         \E rec \in {Entered(shared, n, FALSE)} :
           \E th \in {[calls[t] EXCEPT
                          !.stage = IF calls[t].pc = "projected" THEN "first" ELSE "second"]} :
             IF rec.pc = "loop" THEN Advance(t, [th EXCEPT !.pc = "loop", !.it = rec.it])
             ELSE \E after \in {Localized(th, rec.result)} : Advance(t, after)

\* the caller takes the result and is free to call again
Collect(t) ==
    /\ calls[t].pc \in {"returned", "raised"}
    /\ Advance(t, NoThread)

\* the projection denominator of the row is the zero polynomial
TagsZeroRowDen == [LINE_DEN_COEFF |-> StrVal(CoeffString(<<>>))] @@ TagsIdentity

\* the direct model's denominator of the longitude is the zero polynomial
TagsDirectZeroDen == [LON_DEN_COEFF |-> StrVal(CoeffString(<<>>))] @@ TagsDirect

\* the denominator of the column vanishes at normalised altitude 0 only
TagsColDenAlt == [SAMP_DEN_COEFF |-> StrVal(CoeffString(3 :> <<"1">>))] @@ TagsIdentity

Arrays(x, y, alt) ==
    [x |-> [i \in 1..Len(x) |-> FInt(x[i])], y |-> [i \in 1..Len(y) |-> FInt(y[i])],
     alt |-> [i \in 1..Len(alt) |-> FInt(alt[i])]]

AllCalls == {"projection", "localization", "to_geotiff_dict", "equal", "incidence_angles"}

\* every thread calls any of ops
EveryThread(ops) == [t \in Threads |-> ops]

\* a model, the arrays passed to it, the methods each thread calls and the
\* values of return_normalized they pass
ConcScenarios ==
    {[tags |-> TagsIdentity, inputs |-> Arrays(<<100, 200>>, <<100, 120>>, <<70, 90>>),
      ops |-> EveryThread(AllCalls), rns |-> BOOLEAN],
     [tags |-> TagsDirect, inputs |-> Arrays(<<100, 200>>, <<100, 120>>, <<70, 90>>),
      ops |-> EveryThread(AllCalls), rns |-> BOOLEAN],
     [tags |-> TagsAltitude, inputs |-> Arrays(<<100>>, <<100>>, <<90>>),
      ops |-> EveryThread({"projection", "localization", "equal"}), rns |-> BOOLEAN],
     [tags |-> TagsZeroRowDen, inputs |-> Arrays(<<100, 10>>, <<100, 40>>, <<70, 70>>),
      ops |-> EveryThread({"projection", "to_geotiff_dict"}), rns |-> {}],
     [tags |-> TagsColDenAlt, inputs |-> Arrays(<<100>>, <<100>>, <<70>>),
      ops |-> [t1 |-> {"localization"}, t2 |-> {"projection"}], rns |-> {FALSE}],
     [tags |-> TagsDirectZeroDen, inputs |-> Arrays(<<100, 200>>, <<100, 120>>, <<70, 90>>),
      ops |-> EveryThread({"projection", "localization", "equal"}), rns |-> BOOLEAN]}

CcInit ==
    /\ \E sc \in ConcScenarios :
         /\ shared = RPCModel(sc.tags, "geotiff").obj
         /\ inputs = sc.inputs
         /\ given = [model |-> RPCModel(sc.tags, "geotiff").obj, inputs |-> sc.inputs,
                     ops |-> sc.ops, rns |-> sc.rns]
    /\ calls = [t \in Threads |-> NoThread]
    /\ LocIdle
    /\ EqIdle
    /\ RdIdle
    /\ FnIdle

CcNext ==
    \E t \in Threads :
        \/ CallProjection(t)
        \/ \E rn \in given.rns : CallLocalization(t, rn)
        \/ ThreadIterate(t)
        \/ ThreadRaise(t)
        \/ ThreadReturn(t)
        \/ CallToGeotiffDict(t)
        \/ CallEqual(t)
        \/ CallIncidenceAngles(t)
        \/ IncidenceLocalize(t)
        \/ Collect(t)

(***************************************************************************)
(* apply_poly and apply_rfm on their own                                   *)
(***************************************************************************)
\* the coefficient list with c at the source index k and 0 elsewhere
Single(k, c) == [i \in 1..NCoeff |-> IF i = k + 1 THEN FInt(c) ELSE Zero]

\* the coefficients 1, 2, ..., 20
Dense == [i \in 1..NCoeff |-> FInt(i)]

Numerators == {Single(k, 3) : k \in 0..(NCoeff - 1)} \cup {Dense}

\* 1, 1 + y, and the zero polynomial
Denominators == {Single(0, 1), [Single(0, 1) EXCEPT ![2] = One], Single(0, 0)}

EvalPoints ==
    {[x |-> FInt(2), y |-> FInt(3), z |-> FInt(5)],
     [x |-> Frac(1, 2), y |-> FInt(-1), z |-> FInt(7)],
     [x |-> FInt(-3), y |-> Frac(1, 4), z |-> FInt(0)]}

FnInit ==
    /\ \E num \in Numerators, den \in Denominators, p \in EvalPoints :
         fargs = [num |-> num, den |-> den, x |-> p.x, y |-> p.y, z |-> p.z]
    /\ fout = NoOut
    /\ LocIdle
    /\ EqIdle
    /\ RdIdle
    /\ CcIdle

\* apply_poly(num, x, y, z)
ApplyPoly ==
    /\ fout' = [of |-> "apply_poly",
                value |-> apply_poly(fargs.num, fargs.x, fargs.y, fargs.z)]
    /\ UNCHANGED <<fargs, locvars, eqvars, rdvars, ccvars>>

\* apply_rfm(num, den, x, y, z)
ApplyRfm ==
    /\ fout' = [of |-> "apply_rfm",
                value |-> apply_rfm(fargs.num, fargs.den, fargs.x, fargs.y, fargs.z)]
    /\ UNCHANGED <<fargs, locvars, eqvars, rdvars, ccvars>>

FnNext ==
    \/ ApplyPoly
    \/ ApplyRfm

(***************************************************************************)
(* geo.compute_epsg                                                        *)
(***************************************************************************)
\* floor of a finite number
Floor(a) == a[1] \div a[2]

\* the EPSG code of the first northern UTM zone, less one
UtmNorth == 32600

\* the EPSG code of the first southern UTM zone, less one
UtmSouth == 32700

\* degrees of longitude in a UTM zone
ZoneWidth == 6

\* zone = int((lon + 180) // 6 + 1); const + zone
compute_epsg(lon, lat) ==
    LET zone == Floor(FDiv(FAdd(lon, FInt(180)), FInt(ZoneWidth))) + 1
        const == IF FLt(Zero, lat) THEN UtmNorth ELSE UtmSouth
    IN const + zone

\* longitudes from -180 to 180, one and a half degrees apart
Longitudes == {Frac(3 * k - 360, 2) : k \in 0..240}

Latitudes == {FInt(-90), Frac(-1, 2), Zero, Frac(1, 2), FInt(90)}

GeoInit ==
    /\ \E lon \in Longitudes, lat \in Latitudes : fargs = [lon |-> lon, lat |-> lat]
    /\ fout = NoOut
    /\ LocIdle
    /\ EqIdle
    /\ RdIdle
    /\ CcIdle

\* compute_epsg(lon, lat)
ComputeEpsg ==
    /\ fout' = [of |-> "compute_epsg", value |-> compute_epsg(fargs.lon, fargs.lat)]
    /\ UNCHANGED <<fargs, locvars, eqvars, rdvars, ccvars>>

GeoNext == ComputeEpsg

(***************************************************************************)
(* RPCModel.incidence_angles                                               *)
(***************************************************************************)
\* an angle in degrees known exactly (lo = hi) or to lie strictly between lo
\* and hi
Exactly(a) == [lo |-> a, hi |-> a]

Between(a, b) == [lo |-> a, hi |-> b]

\* np.degrees(np.angle(complex(re, im))): the argument of re + i*im, which
\* numpy takes in (-180, 180]
AngleDeg(re, im) ==
    IF im = Zero THEN (IF FLt(re, Zero) THEN Exactly(180) ELSE Exactly(0))
    ELSE IF FLt(Zero, im)
    THEN (IF re = Zero THEN Exactly(90)
          ELSE IF FLt(Zero, re) THEN Between(0, 90) ELSE Between(90, 180))
    ELSE (IF re = Zero THEN Exactly(-90)
          ELSE IF FLt(Zero, re) THEN Between(-90, 0) ELSE Between(-180, -90))

\* np.degrees(np.arccos(d[2] / norm(d))) for a vector d that is not zero
ArccosDeg(d) ==
    IF d[1] = Zero /\ d[2] = Zero
    THEN (IF FLt(Zero, d[3]) THEN Exactly(0) ELSE Exactly(180))
    ELSE IF d[3] = Zero THEN Exactly(90)
    ELSE IF FLt(Zero, d[3]) THEN Between(0, 90) ELSE Between(90, 180)

\* metres to a degree in the plane of the projection
MetresPerDegree == 100000

\* the central meridian of the UTM zone of an EPSG code
CentralMeridian(epsg) == ZoneWidth * (epsg % 100) - 183

\* pyproj.Transformer.from_crs(4326, epsg, always_xy=True).transform: the
\* projection near the central meridian, easting growing with the longitude
\* and northing with the latitude
transform(epsg, lon, lat) ==
    [x |-> FAdd(FInt(500000),
                FMul(FInt(MetresPerDegree), FSub(lon, FInt(CentralMeridian(epsg))))),
     y |-> FAdd(IF epsg > UtmSouth THEN FInt(10000000) ELSE Zero,
                FMul(FInt(MetresPerDegree), lat))]

\* p1 - p0 for the ground points l0 at the altitude z and l1 at z + s, in
\* the projection epsg
satellite_direction(epsg, l0, l1, z, s) ==
    <<FSub(transform(epsg, l1.lon[1], l1.lat[1]).x, transform(epsg, l0.lon[1], l0.lat[1]).x),
      FSub(transform(epsg, l1.lon[1], l1.lat[1]).y, transform(epsg, l0.lon[1], l0.lat[1]).y),
      FSub(FAdd(z, s), z)>>

\* zenith and azimuth of the direction d; easting, northing = d[:2]
Angles(d) ==
    [kind |-> "value", zenith |-> ArccosDeg(d), azimuth |-> AngleDeg(d[2], d[1]),
     easting |-> d[1], northing |-> d[2]]

\* incidence_angles from the two localizations on: a raise of either passes
\* through
AfterLocalizations(epsg, l0, l1, z, s) ==
    IF l0.kind # "value" THEN l0
    ELSE IF l1.kind # "value" THEN l1
    ELSE Angles(satellite_direction(epsg, l0, l1, z, s))

\* incidence_angles from the projection p = (col, row) on, with s = 100
AfterProjection(m, p, epsg, z, s) ==
    AfterLocalizations(epsg, localization(m, p.col, p.row, <<z>>, FALSE),
                       localization(m, p.col, p.row, <<FAdd(z, s)>>, FALSE), z, s)

\* incidence_angles(lon, lat, z) on the model m
incidence_angles(m, lon, lat, z) ==
    AfterProjection(m, projection(m, <<lon>>, <<lat>>, <<z>>), compute_epsg(lon, lat),
                    z, FInt(100))

\* the identity with the direct model lon = col + a*alt, lat = row + b*alt
\* (normalised)
TagsView(a, b) ==
    TagsIdentity @@ [LON_NUM_COEFF |-> StrVal(CoeffString((1 :> <<"1">>) @@ (3 :> a))),
                     LON_DEN_COEFF |-> StrVal(DenOne),
                     LAT_NUM_COEFF |-> StrVal(CoeffString((2 :> <<"1">>) @@ (3 :> b))),
                     LAT_DEN_COEFF |-> StrVal(DenOne)]

\* the ground point moves west or south, stays, or moves east or north as the
\* altitude grows
Slopes == {<<"-", "0", ".", "0", "1">>, <<"0">>, <<"0", ".", "0", "1">>}

GroundPoints ==
    {[lon |-> FInt(lon), lat |-> FInt(lat), z |-> FInt(z)] :
        lon \in {9, 11}, lat \in {39, 41}, z \in {70, 90}}

AngInit ==
    /\ \E a \in Slopes, b \in Slopes, p \in GroundPoints :
         fargs = [model |-> RPCModel(TagsView(a, b), "geotiff").obj,
                  lon |-> p.lon, lat |-> p.lat, z |-> p.z]
    /\ fout = NoOut
    /\ LocIdle
    /\ EqIdle
    /\ RdIdle
    /\ CcIdle

\* self.incidence_angles(lon, lat, z)
IncidenceAngles ==
    /\ fout' = [of |-> "incidence_angles",
                value |-> incidence_angles(fargs.model, fargs.lon, fargs.lat, fargs.z)]
    /\ UNCHANGED <<fargs, locvars, eqvars, rdvars, ccvars>>

AngNext == IncidenceAngles

(***************************************************************************)
(* remove_ikonos_units and rpc_from_geotiff                                *)
(***************************************************************************)
\* mutant: only the offsets lose their units
HasUnitsOffsetsOnly(key) == EndsWith(Chars(key), Chars("_OFF"))

\* key.endswith('_OFF') or key.endswith('_SCALE')
HasUnits(key) == EndsWith(Chars(key), Chars("_OFF")) \/ EndsWith(Chars(key), Chars("_SCALE"))

\* the loop over rpc_dict.items(): value.split()[0] raises IndexError for a
\* value without a token
remove_ikonos_units(rpc_dict) ==
    IF \E key \in DOMAIN rpc_dict : HasUnits(key) /\ Split(rpc_dict[key].v) = <<>>
    THEN Err("IndexError")
    ELSE Ok([key \in DOMAIN rpc_dict |->
               IF HasUnits(key) THEN StrVal(Split(rpc_dict[key].v)[1]) ELSE rpc_dict[key]])

\* rpc_from_geotiff with the tags that rasterio reads from the file
rpc_from_geotiff(tags_rpc) ==
    LET rpc_dict == remove_ikonos_units(tags_rpc)
    IN IF rpc_dict.err # "" THEN [err |-> rpc_dict.err, obj |-> <<>>]
       ELSE RPCModel(rpc_dict.val, "geotiff")

\* the unit an ikonos text writes after the value of a key
UnitOf(key) ==
    IF key \in {"LINE_OFF", "SAMP_OFF", "LINE_SCALE", "SAMP_SCALE"} THEN "pixels"
    ELSE IF key \in {"HEIGHT_OFF", "HEIGHT_SCALE"} THEN "meters"
    ELSE "degrees"

ScalarKeys == {ValidityScalars[n] : n \in 1..Len(ValidityScalars)}

\* the tags with the unit after the value of each of the keys
WithUnits(t, keys) ==
    [k \in DOMAIN t |->
        IF k \in keys THEN StrVal(t[k].v \o <<" ">> \o Chars(UnitOf(k))) ELSE t[k]]

\* the tags with a blank for the value of the key
Blanked(t, key) == [t EXCEPT ![key] = StrVal(<<" ">>)]

\* tags as GDAL takes them from the file or from a text beside it: without
\* units, with the unit after one value or after all ten, with a blank value
UnitTags ==
    {[plain |-> t, tags |-> WithUnits(t, keys)] :
        t \in {TagsIdentity, TagsAltitude, TagsDirect},
        keys \in {{}, ScalarKeys} \cup {{k} : k \in ScalarKeys}}
    \cup {[plain |-> t, tags |-> Blanked(WithUnits(t, ScalarKeys), "LAT_SCALE")] :
             t \in {TagsIdentity, TagsDirect}}

UnInit ==
    /\ fargs \in UnitTags
    /\ fout = NoOut
    /\ LocIdle
    /\ EqIdle
    /\ RdIdle
    /\ CcIdle

\* remove_ikonos_units(tags)
RemoveUnits ==
    /\ fout.of = "none"
    /\ fout' = [of |-> "remove_ikonos_units", value |-> remove_ikonos_units(fargs.tags)]
    /\ UNCHANGED <<fargs, locvars, eqvars, rdvars, ccvars>>

\* remove_ikonos_units applied to the mapping it returned
RemoveUnitsAgain ==
    /\ fout.of = "remove_ikonos_units"
    /\ fout.value.err = ""
    /\ fout' = [of |-> "again", value |-> remove_ikonos_units(fout.value.val),
                before |-> fout.value]
    /\ UNCHANGED <<fargs, locvars, eqvars, rdvars, ccvars>>

\* rpc_from_geotiff of a file with the tags
RpcFromGeotiff ==
    /\ fout.of = "none"
    /\ fout' = [of |-> "rpc_from_geotiff", value |-> rpc_from_geotiff(fargs.tags)]
    /\ UNCHANGED <<fargs, locvars, eqvars, rdvars, ccvars>>

UnNext ==
    \/ RemoveUnits
    \/ RemoveUnitsAgain
    \/ RpcFromGeotiff

(***************************************************************************)
(* Attribute assignments on a model and on the model built from its        *)
(* __dict__                                                                *)
(***************************************************************************)
\* mutant: the "rpcm" constructor keeps a copy of the dictionary
SharesDictSameOnly(kind) == kind = "same"

\* whether rpc2 and rpc1 have one and the same __dict__: rpc2 is rpc1, or
\* rpc2 was given rpc1.__dict__ by self.__dict__ = d
SharesDict(kind) == kind \in {"same", "rpcm"}

\* the dictionary d after d[a] = v
Put(d, a, v) == [k \in DOMAIN d \cup {a} |-> IF k = a THEN v ELSE d[k]]

\* attributes and the values assigned to them
Assignments ==
    {<<"row_offset", FInt(5)>>, <<"row_offset", NaN>>, <<"col_num", Dense>>,
     <<"lat_num", Dense>>}

\* setattr(m, a, v) for m the model rpc1 (left = 1) or rpc2 (left = 2): the
\* assignment goes to m.__dict__
SetAttr(left, a, v) ==
    /\ origin # NoOrigin /\ outcome = NoOutcome
    /\ rpc1' = IF left = 1 \/ SharesDict(origin.kind) THEN Put(rpc1, a, v) ELSE rpc1
    /\ rpc2' = IF left = 2 \/ SharesDict(origin.kind) THEN Put(rpc2, a, v) ELSE rpc2
    /\ UNCHANGED <<origin, outcome, locvars, rdvars, ccvars, fnvars>>

AliasTags == {TagsIdentity, TagsDirect}

AlNext ==
    \/ \E t \in AliasTags : Construct(t)
    \/ ConstructFromDict
    \/ \E shift \in Shifts : DeepCopyShift(shift)
    \/ \E left \in {1, 2}, as \in Assignments : SetAttr(left, as[1], as[2])
    \/ \E left \in {1, 2} : Compare(left)

(***************************************************************************)
(* RPCModel.__init__ on mappings with some keys of the direct model        *)
(***************************************************************************)
DirectKeys == {"LON_NUM_COEFF", "LON_DEN_COEFF", "LAT_NUM_COEFF", "LAT_DEN_COEFF"}

\* the mapping t restricted to the keys other than drop
Without(t, drop) == [k \in DOMAIN t \ drop |-> t[k]]

\* mappings with the direct model of TagsDirect or of TagsView, less any of
\* its four keys
PartialTags ==
    {Without(t, drop) :
        t \in {TagsDirect, TagsDirectOtherLon} \cup {TagsView(a, a) : a \in Slopes},
        drop \in SUBSET DirectKeys}

BuildInit ==
    /\ \E t \in PartialTags : fargs = [tags |-> t]
    /\ fout = NoOut
    /\ LocIdle
    /\ EqIdle
    /\ RdIdle
    /\ CcIdle

\* RPCModel(tags)
BuildModel ==
    /\ fout.of = "none"
    /\ fout' = [of |-> "RPCModel", value |-> RPCModel(fargs.tags, "geotiff")]
    /\ UNCHANGED <<fargs, locvars, eqvars, rdvars, ccvars>>

\* model.localization(100, 100, 70) on the model built
LocalizeBuilt ==
    /\ fout.of = "RPCModel"
    /\ fout.value.err = ""
    /\ fout' = [of |-> "localization", model |-> fout.value.obj,
                direct |-> UsesDirectModel(fout.value.obj),
                value |-> localization(fout.value.obj, <<FInt(100)>>, <<FInt(100)>>,
                                       <<FInt(70)>>, FALSE)]
    /\ UNCHANGED <<fargs, locvars, eqvars, rdvars, ccvars>>

BuildNext ==
    \/ BuildModel
    \/ LocalizeBuilt

(***************************************************************************)
(* cli.main: the projection and localization commands                      *)
(*                                                                         *)
(* An option that is not given on the command line is None; -x, -y, -z,    *)
(* --lon and --lat are parsed as floats, --points is a path.               *)
(***************************************************************************)
\* the truth value Python gives to an option: None, 0.0 and '' are false
Truthy(val) ==
    /\ val.t # "none"
    /\ ~(val.t = "float" /\ val.v = Zero)
    /\ ~(val.t = "str" /\ val.v = <<>>)

\* parser.error(msg): the message is printed and the process exits
ParserError(msg) == [kind |-> "error", msg |-> msg, call |-> "", args |-> <<>>]

\* a call of a function of the package with the arguments
Called(fn, a) == [kind |-> "call", msg |-> "", call |-> fn, args |-> a]

\* the arrays np.loadtxt(args.points).T
PointsFile == StrVal(Chars("points.txt"))

\* the branch of main for the command of the parsed arguments
main(a) ==
    IF a.cmd = "projection"
    THEN IF Truthy(a.points) /\ (Truthy(a.lat) \/ Truthy(a.lon))
         THEN ParserError("--points and {--lat, --lon} are mutually exclusive")
         ELSE IF ~Truthy(a.points) /\ ~(Truthy(a.lon) /\ Truthy(a.lat))
         THEN ParserError("either --points or {--lat, --lon} must be defined")
         ELSE IF Truthy(a.points) THEN Called("rpcm.projection", <<a.points>>)
         ELSE Called("rpcm.projection", <<a.lon, a.lat, a.z>>)
    ELSE IF Truthy(a.points) /\ (Truthy(a.x) \/ Truthy(a.y) \/ Truthy(a.z))
         THEN ParserError("--points and {-x, -y, -z} are mutually exclusive")
         ELSE IF ~Truthy(a.points) /\ ~(Truthy(a.x) /\ Truthy(a.y) /\ Truthy(a.z))
         THEN ParserError("either --points or {-x, -y, -z} must be defined")
         ELSE IF Truthy(a.points) THEN Called("rpcm.localization", <<a.points>>)
         ELSE Called("rpcm.localization", <<a.x, a.y, a.z>>)

\* an option left out, given as 0, or given as 5
OptionValues == {NoneVal, FloatVal(Zero), FloatVal(FInt(5))}

\* the arguments argparse hands to main
ParsedArgs ==
    {[cmd |-> "projection", points |-> p, lon |-> u, lat |-> v, z |-> w] :
        p \in {NoneVal, PointsFile}, u \in OptionValues, v \in OptionValues,
        w \in OptionValues}
    \cup {[cmd |-> "localization", points |-> p, x |-> u, y |-> v, z |-> w] :
        p \in {NoneVal, PointsFile}, u \in OptionValues, v \in OptionValues,
        w \in OptionValues}

CliInit ==
    /\ fargs \in ParsedArgs
    /\ fout = NoOut
    /\ LocIdle
    /\ EqIdle
    /\ RdIdle
    /\ CcIdle

\* main() after parser.parse_args()
Main ==
    /\ fout.of = "none"
    /\ fout' = [of |-> "main", value |-> main(fargs)]
    /\ UNCHANGED <<fargs, locvars, eqvars, rdvars, ccvars>>

CliNext == Main

(***************************************************************************)
(* Specifications                                                          *)
(***************************************************************************)
SpecLoc == LocInit /\ [][LocNext]_vars

SpecEq == EqInit /\ [][EqNext]_vars

SpecRead == RdInit /\ [][RdNext]_vars

SpecConc == CcInit /\ [][CcNext]_vars

SpecPoly == FnInit /\ [][FnNext]_vars

SpecGeo == GeoInit /\ [][GeoNext]_vars

SpecAngles == AngInit /\ [][AngNext]_vars

SpecUnits == UnInit /\ [][UnNext]_vars

SpecAlias == EqInit /\ [][AlNext]_vars

SpecBuild == BuildInit /\ [][BuildNext]_vars

SpecCli == CliInit /\ [][CliNext]_vars

(***************************************************************************)
(* Claims about localization                                               *)
(***************************************************************************)
\* C1: localization_iterative applies at most 100 updates of (lon, lat): the
\* count n of updates applied never exceeds 100, a still failing convergence
\* test after 100 updates raising instead of a 101st update.
C1_AtMost100Updates == it.n <= MaxIter

\* C2: localization_iterative returns only an estimate whose squared
\* normalised image residual, evaluated afresh at the returned (lon, lat), is
\* below 1e-18 for every point of the batch; its only other outcome is
\* MaxLocalizationIterationsError.
C2_ReturnsOnlyConverged ==
    /\ (pc = "returned" /\ it # NoFrame) =>
         /\ \A i \in 1..Len(it.col) :
              BelowTolerance(SqResidual(
                  apply_rfm(rpc.col_num, rpc.col_den, it.lat[i], it.lon[i], it.alt[i]),
                  apply_rfm(rpc.row_num, rpc.row_den, it.lat[i], it.lon[i], it.alt[i]),
                  it.col[i], it.row[i]))
         /\ result = Returned(rpc, it.lon, it.lat, args.return_normalized)
    /\ pc = "raised" => result.kind = "MaxLocalizationIterationsError"

\* a batch of two points returned after at least one update
C2_Witness == pc = "returned" /\ it.n >= 1 /\ Len(it.col) >= 2

HasDirectModel(m) ==
    /\ hasattr(m, "lon_num") /\ hasattr(m, "lon_den")
    /\ hasattr(m, "lat_num") /\ hasattr(m, "lat_den")

\* C3: a model with direct-model coefficients is localized by the closed
\* form (no loop, no MaxLocalizationIterationsError, the rational functions'
\* value returned); a model without them always by the iterative inversion.
C3_DirectExactlyWhenPresent ==
    LET ncol == Normalize(args.col, rpc.col_offset, rpc.col_scale)
        nrow == Normalize(args.row, rpc.row_offset, rpc.row_scale)
        nalt == Normalize(args.alt, rpc.alt_offset, rpc.alt_scale)
    IN /\ pc \in {"loop", "raised"} => ~HasDirectModel(rpc)
       /\ (pc = "returned" /\ HasDirectModel(rpc)) =>
            /\ it = NoFrame
            /\ result = Returned(rpc, Rfm(rpc.lon_num, rpc.lon_den, nrow, ncol, nalt),
                                      Rfm(rpc.lat_num, rpc.lat_den, nrow, ncol, nalt),
                                 args.return_normalized)
       /\ (pc = "returned" /\ ~HasDirectModel(rpc)) =>
            /\ it # NoFrame
            /\ it.col = ncol /\ it.row = nrow /\ it.alt = nalt
            /\ result = Returned(rpc, it.lon, it.lat, args.return_normalized)

\* a call answered by the direct model
C3_Witness == pc = "returned" /\ HasDirectModel(rpc) /\ result.kind = "value"

\* the models RPCModel builds from the tag mappings of LocScenarios
FreshModels ==
    {[tags |-> sc.tags, obj |-> RPCModel(sc.tags, "geotiff").obj] : sc \in LocScenarios}

\* RPCModel(t, "geotiff").obj for a tag mapping t of LocScenarios
Fresh(t) == (CHOOSE f \in FreshModels : f.tags = t).obj

\* C4: a call that raises MaxLocalizationIterationsError hands back no
\* partial result and leaves the model as built; every call made after it
\* (the same inputs again, or another altitude) gives what localization gives
\* on the freshly built model.
C4_FailedCallLeavesNoTrace ==
    /\ rpc = Fresh(tags)
    /\ pc = "raised" => result = Raised("MaxLocalizationIterationsError")
    /\ (pc \in {"returned", "raised"} /\ prev.kind = "MaxLocalizationIterationsError") =>
         result = localization(Fresh(tags),
                               args.col, args.row, args.alt, args.return_normalized)

\* a call at another altitude that returns after a call that raised
C4_Witness ==
    /\ pc = "returned"
    /\ result.kind = "value"
    /\ prev.kind = "MaxLocalizationIterationsError"
    /\ prev.alts # {args.alt[i] : i \in 1..Len(args.alt)}

\* the same inputs again: the call raises again
C4_WitnessRepeat ==
    /\ pc = "raised"
    /\ prev.kind = "MaxLocalizationIterationsError"
    /\ prev.alts = {args.alt[i] : i \in 1..Len(args.alt)}

(***************************************************************************)
(* Claims about export and comparison                                      *)
(***************************************************************************)
\* C5: the model rebuilt from m.to_geotiff_dict() equals m: comparing the
\* original (left operand) with the rebuilt model evaluates to True.
C5_RoundTripEqual ==
    (origin.kind = "rebuilt" /\ outcome.left = 1) => outcome.eq = "True"

LocalizationAttrs == {"lon_num", "lon_den", "lat_num", "lat_den"}

OffsetAttrs == {"row_offset", "col_offset", "lat_offset", "lon_offset", "alt_offset"}

ScaleAttrs == {"row_scale", "col_scale", "lat_scale", "lon_scale", "alt_scale"}

\* element-wise near-equality of two coefficient lists
ListsNear(x, y) == Len(x) = Len(y) /\ \A i \in 1..Len(x) : isclose(x[i], y[i])

\* C6: equal_localization is the near-equality of lon_num, lon_den, lat_num
\* and lat_den when both models have them, True when neither has them, and a
\* boolean in both cases.
C6_LocalizationCompared ==
    outcome # NoOutcome =>
        LET x == Left(outcome.left)
            y == Right(outcome.left)
        IN /\ (HasDirectModel(x) /\ HasDirectModel(y)) =>
                outcome.localization = Py(\A a \in LocalizationAttrs : ListsNear(x[a], y[a]))
           /\ (~HasDirectModel(x) /\ ~HasDirectModel(y)) => outcome.localization = "True"

\* two models with direct-model coefficients that differ in lon_num
C6_Witness ==
    /\ outcome # NoOutcome
    /\ HasDirectModel(rpc1) /\ HasDirectModel(rpc2)
    /\ rpc1.lon_num # rpc2.lon_num
    /\ outcome.localization = "False"

AllTrue(o) ==
    /\ o.offsets = "True" /\ o.scales = "True"
    /\ o.projection = "True" /\ o.localization = "True"

\* same attributes, same values outside the offsets and the scales
SameCoefficients(x, y) ==
    /\ DOMAIN x = DOMAIN y
    /\ \A a \in DOMAIN x \ (OffsetAttrs \cup ScaleAttrs) : x[a] = y[a]

\* every offset, scale and coefficient of m is a finite number
FiniteFields(m) ==
    \A a \in DOMAIN m :
        IF a \in OffsetAttrs \cup ScaleAttrs THEN IsFinite(m[a])
        ELSE \A i \in 1..Len(m[a]) : IsFinite(m[a][i])

\* every coefficient of m is a finite number
FiniteCoefficients(m) ==
    \A a \in DOMAIN m \ (OffsetAttrs \cup ScaleAttrs) : \A i \in 1..Len(m[a]) : IsFinite(m[a][i])

\* C7 as stated: == is the conjunction of the four partial comparisons, a
\* model equals itself, and two models that differ only in offsets and scales
\* are unequal with equal_projection True, equal_offsets and equal_scales False.
C7_DifferingExtentsUnequal ==
    outcome # NoOutcome =>
        /\ outcome.eq = "True" <=> AllTrue(outcome)
        /\ origin.kind = "same" => outcome.eq = "True"
        /\ ( /\ SameCoefficients(rpc1, rpc2)
             /\ \E a \in OffsetAttrs : rpc1[a] # rpc2[a]
             /\ \E a \in ScaleAttrs : rpc1[a] # rpc2[a] ) =>
               /\ outcome.eq = "False" /\ outcome.projection = "True"
               /\ outcome.offsets = "False" /\ outcome.scales = "False"

\* C7 amended: == is the conjunction of the four partial comparisons, a model
\* of finite fields equals itself, and two models with the same finite
\* coefficients of which some offset and some scale differ by more than
\* np.allclose tolerates are unequal with equal_projection True,
\* equal_offsets and equal_scales False.
C7_EqIsConjunction ==
    outcome # NoOutcome =>
        LET x == Left(outcome.left)
            y == Right(outcome.left)
        IN /\ outcome.eq = "True" <=> AllTrue(outcome)
           /\ (origin.kind = "same" /\ FiniteFields(x)) => outcome.eq = "True"
           /\ ( /\ SameCoefficients(x, y)
                /\ FiniteCoefficients(x)
                /\ \E a \in OffsetAttrs : ~isclose(x[a], y[a])
                /\ \E a \in ScaleAttrs : ~isclose(x[a], y[a]) ) =>
                  /\ outcome.eq = "False" /\ outcome.projection = "True"
                  /\ outcome.offsets = "False" /\ outcome.scales = "False"

\* two image extents of one sensor, compared
C7_Witness ==
    /\ origin.kind = "other"
    /\ FiniteFields(rpc1) /\ FiniteFields(rpc2)
    /\ SameCoefficients(rpc1, rpc2)
    /\ outcome.eq = "False" /\ outcome.projection = "True"
    /\ outcome.offsets = "False" /\ outcome.scales = "False"

C8_WitnessLarge ==
    /\ origin = [kind |-> "shifted", shift |-> Frac(1, 1000)]
    /\ outcome.left = 2
    /\ outcome.eq = "True"

(***************************************************************************)
(* Claims about reading sidecar files                                      *)
(***************************************************************************)
\* the text of the first marker the document has, in the order the reader
\* looks for them; Absent when it has none
FirstMarker(root) ==
    IF find(root, <<"Metadata_Identification", "METADATA_PROFILE">>) # NoElement
    THEN <<"a", find(root, <<"Metadata_Identification", "METADATA_PROFILE">>).text>>
    ELSE IF find(root, <<"IMD", "IMAGE", "SATID">>) # NoElement
    THEN <<"b", find(root, <<"IMD", "IMAGE", "SATID">>).text>>
    ELSE IF find(root, <<"specific", "mission">>) # NoElement
    THEN <<"c", find(root, <<"specific", "mission">>).text>>
    ELSE <<"", Absent>>

HandledMarkers ==
    {<<"a", PHR_SENSOR>>, <<"a", S6_SENSOR>>, <<"a", S7_SENSOR>>, <<"a", PNEO_SENSOR>>,
     <<"b", WV01>>, <<"b", WV02>>, <<"b", WV03>>, <<"c", EnMAP>>}

RequiredKeys ==
    {OffsetScaleKeys[i][1] : i \in 1..Len(OffsetScaleKeys)}
    \cup {ProjectionKeys[i][1] : i \in 1..Len(ProjectionKeys)}

\* a record with every key of a model, or one such record per band
Complete(value) ==
    /\ DOMAIN value # {}
    /\ \/ RequiredKeys \subseteq DOMAIN value
       \/ \A band \in DOMAIN value : RequiredKeys \subseteq DOMAIN value[band]

Contains(str, part) ==
    \E i \in 1..(Len(str) - Len(part) + 1) : SubSeq(str, i, i + Len(part) - 1) = part

C9_WitnessReturned ==
    /\ rd.kind = "value"
    /\ IsXmlName(file.name)
    /\ FirstMarker(file.content.root) = <<"c", EnMAP>>
    /\ DOMAIN rd.value = {"1", "2"}

\* C10: reading a file named *.xml whose content is not well-formed XML
\* raises NotImplementedError with the file name in its message.
C10_MalformedUnsupported ==
    (rd # NoRead /\ IsXmlName(file.name) /\ ~file.content.wellformed) =>
        rd.kind = "NotImplementedError" /\ Contains(rd.msg, file.name)

(***************************************************************************)
(* Claims about missing fields                                             *)
(***************************************************************************)
\* the keys of the lines of an ikonos text
LineKeys(text) == DOMAIN Assigned(IkonosEntries(SplitLines(text))).val

KeysLackField(keys) ==
    \/ \E n \in 1..Len(ValidityScalars) : ValidityScalars[n] \notin keys
    \/ \E n \in 1..Len(IkonosCoeffs), x \in 1..NCoeff :
          (IkonosCoeffs[n] \o "_" \o IntStr[x]) \notin keys

\* an ikonos text without the line of an offset, a scale or a coefficient
TextLacksField(text) == KeysLackField(LineKeys(text))

\* a json value with the key 'rpc' and without one of the attributes read
JsonLacksField(content) ==
    /\ content.wellformed
    /\ "rpc" \in DOMAIN content.value
    /\ \/ \E n \in 1..Len(OffsetScaleKeys) :
             OffsetScaleKeys[n][2] \notin DOMAIN content.value.rpc
       \/ \E n \in 1..Len(ProjectionKeys) :
             ProjectionKeys[n][2] \notin DOMAIN content.value.rpc

\* a Pleiades, SPOT or Pleiades Neo document without the element of an
\* offset, a scale or a coefficient
GlobalRfmLacksField(tree, dtag, itag, coeffs) ==
    \/ \E n \in 1..Len(coeffs), x \in 1..NCoeff :
          /\ coeffs[n][1] # "ERR_BIAS"
          /\ find(tree, <<"Rational_Function_Model", "Global_RFM",
                          IF coeffs[n][2] = 1 THEN dtag ELSE itag,
                          coeffs[n][3] \o "_" \o IntStr[x]>>) = NoElement
    \/ \E n \in 1..Len(ValidityScalars) :
          find(tree, <<"Rational_Function_Model", "Global_RFM", "RFM_Validity",
                       ValidityScalars[n]>>) = NoElement

WorldViewLacksField(tree) ==
    \/ \E n \in 1..Len(WorldViewCoeffs) :
          find(tree, <<"RPB", "IMAGE">> \o WorldViewCoeffs[n][2]) = NoElement
    \/ \E n \in 1..Len(WorldViewScalars) :
          /\ WorldViewScalars[n][1] # "ERR_BIAS"
          /\ find(tree, <<"RPB", "IMAGE", WorldViewScalars[n][2]>>) = NoElement

BandLacksField(band) ==
    \/ \E n \in 1..Len(EnmapScalars) : find(band, <<EnmapScalars[n][2]>>) = NoElement
    \/ \E n \in 1..Len(EnmapCoeffs), x \in 1..NCoeff :
          find(band, <<EnmapCoeffs[n][2] \o "_" \o IntStr02[x]>>) = NoElement

EnmapLacksField(tree) ==
    \E b \in 1..Len(findall(tree, <<"product", "navigation", "RPC", "bandID">>)) :
        BandLacksField(findall(tree, <<"product", "navigation", "RPC", "bandID">>)[b])

\* a well-formed document of a recognized dialect without a required element
XmlLacksField(content) ==
    /\ content.wellformed
    /\ \/ /\ FirstMarker(content.root) \in
                {<<"a", PHR_SENSOR>>, <<"a", S6_SENSOR>>, <<"a", S7_SENSOR>>}
          /\ GlobalRfmLacksField(content.root, "Direct_Model", "Inverse_Model", PleiadesCoeffs)
       \/ /\ FirstMarker(content.root) = <<"a", PNEO_SENSOR>>
          /\ GlobalRfmLacksField(content.root, "ImagetoGround_Values",
                                 "GroundtoImage_Values", PleiadesNeoCoeffs)
       \/ /\ FirstMarker(content.root) \in {<<"b", WV01>>, <<"b", WV02>>, <<"b", WV03>>}
          /\ WorldViewLacksField(content.root)
       \/ /\ FirstMarker(content.root) = <<"c", EnMAP>>
          /\ EnmapLacksField(content.root)

LacksField(f) ==
    IF IsXmlName(f.name) THEN XmlLacksField(f.content)
    ELSE IF IsJsonName(f.name) THEN JsonLacksField(f.content)
    ELSE TextLacksField(f.content.text)

\* C11: reading a file of a recognized dialect that lacks a required offset,
\* scale or coefficient field fails, with an error that is not the
\* unsupported-format error, and returns no record.
C11_MissingFieldFails ==
    (rd # NoRead /\ LacksField(file)) => rd.kind \notin {"value", "NotImplementedError"}

(***************************************************************************)
(* Claims about the two constructors                                       *)
(***************************************************************************)
\* C12 as stated: the model built from g.__dict__ with dict_format "rpcm"
\* has the offsets, scales and coefficients of g, and the two compare equal.
C12_SameModelEqual ==
    origin.kind = "rpcm" =>
        /\ rpc2 = rpc1
        /\ outcome # NoOutcome => outcome.eq = "True"

\* C12 amended: the model built from g.__dict__ has the offsets, scales and
\* coefficients of g, and the two compare equal when no field of g is NaN.
C12_SameModel ==
    origin.kind = "rpcm" =>
        /\ rpc2 = rpc1
        /\ (outcome # NoOutcome /\ FiniteFields(rpc1)) => outcome.eq = "True"

\* a model with the direct-model coefficients, built again from its
\* __dict__ and compared
C12_Witness ==
    /\ origin.kind = "rpcm"
    /\ HasDirectModel(rpc1)
    /\ FiniteFields(rpc1)
    /\ outcome.eq = "True"

(***************************************************************************)
(* Claims about the dialects' records                                      *)
(***************************************************************************)
\* a document that the reader takes for a WorldView document
IsWorldView(f) ==
    /\ IsXmlName(f.name)
    /\ f.content.wellformed
    /\ FirstMarker(f.content.root) \in {<<"b", WV01>>, <<"b", WV02>>, <<"b", WV03>>}

LocalizationKeySet == {LocalizationKeys[i][1] : i \in 1..Len(LocalizationKeys)}

\* C13: the record read from a WorldView document has none of the keys
\* LON_NUM_COEFF, LON_DEN_COEFF, LAT_NUM_COEFF, LAT_DEN_COEFF, and the model
\* built from it is localized by the iterative inversion.
C13_WorldViewIterative ==
    (rd # NoRead /\ rd.kind = "value" /\ IsWorldView(file)) =>
        /\ DOMAIN rd.value \cap LocalizationKeySet = {}
        /\ \A r \in {RPCModel(rd.value, "geotiff")} :
              r.err = "" => (~UsesDirectModel(r.obj) /\ ~HasDirectModel(r.obj))

\* a WorldView record from which a model is built
C13_Witness ==
    /\ rd # NoRead /\ rd.kind = "value" /\ IsWorldView(file)
    /\ RPCModel(rd.value, "geotiff").err = ""

\* a document that the reader takes for an EnMAP document
IsEnmap(f) ==
    /\ IsXmlName(f.name)
    /\ f.content.wellformed
    /\ FirstMarker(f.content.root) = <<"c", EnMAP>>

\* the band elements of an EnMAP document, in document order
BandsOf(f) ==
    IF find(f.content.root, <<"product", "navigation", "RPC">>) = NoElement THEN <<>>
    ELSE findall(find(f.content.root, <<"product", "navigation", "RPC">>), <<"bandID">>)

\* C14: the mapping read from an EnMAP document of N >= 1 bands has exactly
\* the keys "1" .. "N"; the record under the k-th key is the one read from the
\* k-th band element alone, has every key of a model, and a model can be
\* built from it.
C14_OneRecordPerBand ==
    (rd # NoRead /\ rd.kind = "value" /\ IsEnmap(file)) =>
        \A bands \in {BandsOf(file)} :
            /\ Len(bands) >= 1
            /\ DOMAIN rd.value = {IntStr[k] : k \in 1..Len(bands)}
            /\ \A k \in 1..Len(bands) :
                  /\ rd.value[IntStr[k]] = ReadBand(bands[k]).val
                  /\ DOMAIN rd.value[IntStr[k]] = RequiredKeys
                  /\ RPCModel(rd.value[IntStr[k]], "geotiff").err = ""

\* an EnMAP document of two bands is read and the records differ
C14_Witness ==
    /\ rd # NoRead /\ rd.kind = "value" /\ IsEnmap(file)
    /\ Len(BandsOf(file)) = 2
    /\ rd.value["1"] # rd.value["2"]

(***************************************************************************)
(* Claims about concurrent calls                                           *)
(***************************************************************************)
\* incidence_angles run alone: its two localizations, or what the first
\* failing one raised
IncidenceAlone(m, p, alt) ==
    LET r0 == localization(m, p.col, p.row, alt, FALSE)
        r1 == localization(m, p.col, p.row, Raise100(alt), FALSE)
    IN IF r0.kind # "value" THEN r0
       ELSE IF r1.kind # "value" THEN r1
       ELSE [kind |-> "value", lon0 |-> r0.lon, lat0 |-> r0.lat,
             lon1 |-> r1.lon, lat1 |-> r1.lat]

\* what the call op returns or raises when it runs alone on the model m
Alone(op, rn, m, inp) ==
    IF op = "projection"
    THEN [kind |-> "value", col |-> projection(m, inp.x, inp.y, inp.alt).col,
          row |-> projection(m, inp.x, inp.y, inp.alt).row]
    ELSE IF op = "localization" THEN localization(m, inp.x, inp.y, inp.alt, rn)
    ELSE IF op = "to_geotiff_dict" THEN [kind |-> "value", dict |-> to_geotiff_dict(m)]
    ELSE IF op = "equal" THEN Comparisons(m, m)
    ELSE IncidenceAlone(m, projection(m, inp.x, inp.y, inp.alt), inp.alt)

\* C15: whatever the interleaving of the threads' calls, the shared model
\* keeps the attributes it was constructed with, the callers' arrays keep
\* their contents, and every call that ended returned or raised what it
\* returns or raises when it runs alone.
C15_InterleavingsAgree ==
    given # <<>> =>
        /\ shared = given.model
        /\ inputs = given.inputs
        /\ \A t \in Threads :
              calls[t].pc \in {"returned", "raised"} =>
                  calls[t].result = Alone(calls[t].op, calls[t].rn, given.model, given.inputs)

\* a localization that took passes of the loop has ended while the other
\* thread is inside its own loop
C15_Witness ==
    \E t, u \in Threads :
        /\ t # u
        /\ calls[t].op = "localization" /\ calls[t].pc = "returned" /\ calls[t].it.n >= 1
        /\ calls[u].pc = "loop" /\ calls[u].it.n >= 1

(***************************************************************************)
(* Claims about vanishing denominators                                     *)
(***************************************************************************)
\* the points at which den vanishes, of the points (x[i], y[i], z[i])
ZeroAt(den, x, y, z) == {i \in 1..Len(x) : apply_poly(den, x[i], y[i], z[i]) = Zero}

\* the points of a call to projection at which col_den or row_den vanishes
ProjectionZeros(m, inp) ==
    LET nlon == Normalize(inp.x, m.lon_offset, m.lon_scale)
        nlat == Normalize(inp.y, m.lat_offset, m.lat_scale)
        nalt == Normalize(inp.alt, m.alt_offset, m.alt_scale)
    IN [col |-> ZeroAt(m.col_den, nlat, nlon, nalt), row |-> ZeroAt(m.row_den, nlat, nlon, nalt)]

\* the points of a call to localization at which lon_den or lat_den vanishes
DirectZeros(m, inp) ==
    LET n == Normalized(m, inp.x, inp.y, inp.alt)
    IN [lon |-> ZeroAt(m.lon_den, n.row, n.col, n.alt), lat |-> ZeroAt(m.lat_den, n.row, n.col, n.alt)]

\* the points of a call to localization at which col_den or row_den vanishes
\* at the first estimate lon = lat = -1
EntryZeros(m, inp) ==
    LET n == Normalized(m, inp.x, inp.y, inp.alt)
        start == [i \in 1..Len(n.alt) |-> FInt(-1)]
    IN ZeroAt(m.col_den, start, start, n.alt) \cup ZeroAt(m.row_den, start, start, n.alt)

\* whether a denominator vanishes in the call of thread th
MeetsZero(th, m, inp) ==
    IF th.op = "projection"
    THEN ProjectionZeros(m, inp).col \cup ProjectionZeros(m, inp).row # {}
    ELSE IF th.op # "localization" THEN FALSE
    ELSE IF UsesDirectModel(m)
    THEN DirectZeros(m, inp).lon \cup DirectZeros(m, inp).lat # {}
    ELSE EntryZeros(m, inp) # {}

\* some coordinate of a result is inf or NaN
CarriesNonFinite(r) ==
    \E a \in DOMAIN r \ {"kind"} : \E i \in 1..Len(r[a]) : ~IsFinite(r[a][i])

\* C16 as stated: a call to projection or localization in which a denominator
\* vanishes returns normally, with inf or NaN in its result.
C16_ZeroDenominatorReturns ==
    \A t \in Threads :
        (calls # <<>> /\ calls[t].pc \in {"returned", "raised"} /\ MeetsZero(calls[t], shared, inputs))
            => (calls[t].pc = "returned" /\ CarriesNonFinite(calls[t].result))

\* C16 amended: a vanishing denominator raises no division error.  projection
\* and the direct model return normally and the coordinates whose denominator
\* vanished are inf or NaN; in the iterative inversion a denominator that
\* vanishes at the first estimate makes the estimate NaN after one update,
\* the loop never converges and the call ends with
\* MaxLocalizationIterationsError.
C16_ZeroDenominatorPropagates ==
    \A t \in Threads :
        (calls # <<>> /\ calls[t].op \in {"projection", "localization"}) =>
            \A th \in {calls[t]} :
                /\ th.pc = "raised" => th.result.kind = "MaxLocalizationIterationsError"
                /\ (th.op = "projection" /\ th.pc # "idle") =>
                     /\ th.pc = "returned"
                     /\ \A i \in ProjectionZeros(shared, inputs).col : ~IsFinite(th.result.col[i])
                     /\ \A i \in ProjectionZeros(shared, inputs).row : ~IsFinite(th.result.row[i])
                /\ (th.op = "localization" /\ UsesDirectModel(shared)) =>
                     /\ th.pc = "returned"
                     /\ \A i \in DirectZeros(shared, inputs).lon : ~IsFinite(th.result.lon[i])
                     /\ \A i \in DirectZeros(shared, inputs).lat : ~IsFinite(th.result.lat[i])
                /\ (th.op = "localization" /\ ~UsesDirectModel(shared)) =>
                     \A i \in EntryZeros(shared, inputs) :
                         /\ th.pc # "returned"
                         /\ th.it.n >= 1 => (IsNaN(th.it.lon[i]) /\ IsNaN(th.it.lat[i]))

\* an iterative localization that met a vanishing denominator has raised,
\* and the other thread's projection returned an infinite or NaN coordinate
C16_Witness ==
    \E t, u \in Threads :
        /\ calls[t].op = "localization" /\ calls[t].pc = "raised"
        /\ EntryZeros(shared, inputs) # {}
        /\ calls[u].op = "projection" /\ calls[u].pc = "returned"
        /\ CarriesNonFinite(calls[u].result)

\* a direct localization returned an infinite or NaN longitude
C16_WitnessDirect ==
    \E t \in Threads :
        /\ calls[t].op = "localization" /\ calls[t].pc = "returned"
        /\ UsesDirectModel(shared)
        /\ DirectZeros(shared, inputs).lon # {}
        /\ CarriesNonFinite(calls[t].result)

(***************************************************************************)
(* Claims about the coefficient lists                                      *)
(***************************************************************************)
\* the records of a value read_rpc_file returned: the value itself, or the
\* records of the bands
RecordsOf(value) ==
    IF "LINE_OFF" \in DOMAIN value THEN {value} ELSE {value[k] : k \in DOMAIN value}

\* the attributes of a model that hold coefficient lists
CoefficientAttrs(m) == DOMAIN m \ (OffsetAttrs \cup ScaleAttrs)

\* C17: every model constructed from a record that read_rpc_file returned
\* has NCoeff = 20 coefficients in each of its numerator and denominator
\* lists.
C17_TwentyCoefficients ==
    (rd # NoRead /\ rd.kind = "value") =>
        \A record \in RecordsOf(rd.value) :
            \A r \in {RPCModel(record, "geotiff")} :
                r.err = "" => \A a \in CoefficientAttrs(r.obj) : Len(r.obj[a]) = NCoeff

(***************************************************************************)
(* Claims about projection and the polynomials                             *)
(***************************************************************************)
\* R(num, den) * scale + offset at the i-th point, R = apply_rfm with the
\* normalised latitude as x and the normalised longitude as y
ScaledRfm(num, den, m, inp, i, scale, offset) ==
    LET nlon == FDiv(FSub(inp.x[i], m.lon_offset), m.lon_scale)
        nlat == FDiv(FSub(inp.y[i], m.lat_offset), m.lat_scale)
        nalt == FDiv(FSub(inp.alt[i], m.alt_offset), m.alt_scale)
    IN FAdd(FMul(apply_rfm(num, den, nlat, nlon, nalt), scale), offset)

\* C18: projection(lon, lat, alt) is (R(col_num, col_den) * col_scale +
\* col_offset, R(row_num, row_den) * row_scale + row_offset) with R evaluated
\* at x = nlat, y = nlon, z = nalt.
C18_ProjectionFormula ==
    \A t \in Threads :
        (calls # <<>> /\ calls[t].op = "projection" /\ calls[t].pc = "returned") =>
            /\ Len(calls[t].result.col) = Len(inputs.x)
            /\ Len(calls[t].result.row) = Len(inputs.x)
            /\ \A i \in 1..Len(inputs.x) :
                  /\ calls[t].result.col[i] =
                        ScaledRfm(shared.col_num, shared.col_den, shared, inputs, i,
                                  shared.col_scale, shared.col_offset)
                  /\ calls[t].result.row[i] =
                        ScaledRfm(shared.row_num, shared.row_den, shared, inputs, i,
                                  shared.row_scale, shared.row_offset)

\* a projection returned finite coordinates for a point whose normalised
\* longitude and latitude differ
C18_Witness ==
    \E t \in Threads :
        /\ calls[t].op = "projection" /\ calls[t].pc = "returned"
        /\ \E i \in 1..Len(inputs.x) :
             /\ IsFinite(calls[t].result.col[i]) /\ IsFinite(calls[t].result.row[i])
             /\ FDiv(FSub(inputs.x[i], shared.lon_offset), shared.lon_scale)
                  # FDiv(FSub(inputs.y[i], shared.lat_offset), shared.lat_scale)
             /\ calls[t].result.col[i] # calls[t].result.row[i]

\* the exponents <<of x, of y, of z>> of the monomials 1, y, x, z, x*y, y*z,
\* x*z, y^2, x^2, z^2, x*y*z, y^3, y*x^2, y*z^2, y^2*x, x^3, x*z^2, y^2*z,
\* x^2*z, z^3
RpcOrder ==
    << <<0, 0, 0>>, <<0, 1, 0>>, <<1, 0, 0>>, <<0, 0, 1>>, <<1, 1, 0>>, <<0, 1, 1>>,
       <<1, 0, 1>>, <<0, 2, 0>>, <<2, 0, 0>>, <<0, 0, 2>>, <<1, 1, 1>>, <<0, 3, 0>>,
       <<2, 1, 0>>, <<0, 1, 2>>, <<1, 2, 0>>, <<3, 0, 0>>, <<1, 0, 2>>, <<0, 2, 1>>,
       <<2, 0, 1>>, <<0, 0, 3>> >>

Cubic(c, x, y, z) == SumTerms(RpcOrder, c, x, y, z, NCoeff)

\* C19: apply_poly(c, x, y, z) is the cubic c0 + c1*y + c2*x + c3*z + c4*x*y +
\* c5*y*z + c6*x*z + c7*y^2 + c8*x^2 + c9*z^2 + c10*x*y*z + c11*y^3 +
\* c12*y*x^2 + c13*y*z^2 + c14*y^2*x + c15*x^3 + c16*x*z^2 + c17*y^2*z +
\* c18*x^2*z + c19*z^3, and apply_rfm is the quotient of the two cubics.
C19_TermOrder ==
    /\ fout.of = "apply_poly" => fout.value = Cubic(fargs.num, fargs.x, fargs.y, fargs.z)
    /\ fout.of = "apply_rfm" =>
         fout.value = FDiv(Cubic(fargs.num, fargs.x, fargs.y, fargs.z),
                           Cubic(fargs.den, fargs.x, fargs.y, fargs.z))

\* the polynomial with every coefficient set was evaluated at a point of
\* three different coordinates
C19_Witness ==
    /\ fout.of = "apply_poly"
    /\ fargs.num = Dense
    /\ fargs.x # fargs.y /\ fargs.y # fargs.z /\ fargs.x # fargs.z
    /\ fout.value # Zero

\* a quotient with the denominator 1 + y was evaluated
C19_WitnessQuotient ==
    /\ fout.of = "apply_rfm"
    /\ fargs.den = [Single(0, 1) EXCEPT ![2] = One]
    /\ IsFinite(fout.value)

(***************************************************************************)
(* Claims about the Pleiades, SPOT and Pleiades Neo records                *)
(***************************************************************************)
\* a document that the reader takes for a Pleiades or SPOT document
IsPleiades(f) ==
    /\ IsXmlName(f.name)
    /\ f.content.wellformed
    /\ FirstMarker(f.content.root) \in {<<"a", PHR_SENSOR>>, <<"a", S6_SENSOR>>, <<"a", S7_SENSOR>>}

\* a document that the reader takes for a Pleiades Neo document
IsPleiadesNeo(f) ==
    /\ IsXmlName(f.name)
    /\ f.content.wellformed
    /\ FirstMarker(f.content.root) = <<"a", PNEO_SENSOR>>

\* the texts of the elements prefix_1 .. prefix_20 of the element model of
\* Global_RFM, separated by spaces
SourceCoeffs(f, model, prefix) ==
    StrVal(Join([x \in 1..NCoeff |->
        find(f.content.root, <<"Rational_Function_Model", "Global_RFM", model,
                               prefix \o "_" \o IntStr[x]>>).text]))

\* the number in the element tag of RFM_Validity, less by
SourceScalar(f, tag, by) ==
    FloatVal(FSub(FloatOf(Split(find(f.content.root,
                 <<"Rational_Function_Model", "Global_RFM", "RFM_Validity", tag>>).text)[1]),
                  FInt(by)))

\* C20: in a Pleiades or SPOT record the LON_ and LAT_ coefficients are the
\* SAMP_ and LINE_ coefficients of Direct_Model, the projection coefficients
\* those of Inverse_Model, LINE_OFF and SAMP_OFF the source values minus 1 and
\* the other offsets and scales the source values; in a Pleiades Neo record
\* every coefficient list is the one of the same name and every offset and
\* scale the source value.
C20_PleiadesConventions ==
    /\ (rd # NoRead /\ rd.kind = "value" /\ IsPleiades(file)) =>
         /\ rd.value.LON_NUM_COEFF = SourceCoeffs(file, "Direct_Model", "SAMP_NUM_COEFF")
         /\ rd.value.LON_DEN_COEFF = SourceCoeffs(file, "Direct_Model", "SAMP_DEN_COEFF")
         /\ rd.value.LAT_NUM_COEFF = SourceCoeffs(file, "Direct_Model", "LINE_NUM_COEFF")
         /\ rd.value.LAT_DEN_COEFF = SourceCoeffs(file, "Direct_Model", "LINE_DEN_COEFF")
         /\ \A k \in {"SAMP_NUM_COEFF", "SAMP_DEN_COEFF", "LINE_NUM_COEFF", "LINE_DEN_COEFF"} :
               rd.value[k] = SourceCoeffs(file, "Inverse_Model", k)
         /\ \A k \in {"LINE_OFF", "SAMP_OFF"} : rd.value[k] = SourceScalar(file, k, 1)
         /\ \A k \in RequiredKeys \ {"LINE_OFF", "SAMP_OFF", "SAMP_NUM_COEFF",
                                      "SAMP_DEN_COEFF", "LINE_NUM_COEFF", "LINE_DEN_COEFF"} :
               rd.value[k] = SourceScalar(file, k, 0)
    /\ (rd # NoRead /\ rd.kind = "value" /\ IsPleiadesNeo(file)) =>
         /\ \A k \in LocalizationKeySet :
               rd.value[k] = SourceCoeffs(file, "ImagetoGround_Values", k)
         /\ \A k \in {"SAMP_NUM_COEFF", "SAMP_DEN_COEFF", "LINE_NUM_COEFF", "LINE_DEN_COEFF"} :
               rd.value[k] = SourceCoeffs(file, "GroundtoImage_Values", k)
         /\ \A k \in RequiredKeys \ {"SAMP_NUM_COEFF", "SAMP_DEN_COEFF",
                                      "LINE_NUM_COEFF", "LINE_DEN_COEFF"} :
               rd.value[k] = SourceScalar(file, k, 0)

\* a Pleiades record whose direct and inverse coefficients differ was read
C20_Witness ==
    /\ rd # NoRead /\ rd.kind = "value" /\ IsPleiades(file)
    /\ rd.value.LON_NUM_COEFF # rd.value.SAMP_NUM_COEFF
    /\ rd.value.LAT_NUM_COEFF # rd.value.LINE_NUM_COEFF
    /\ rd.value.LINE_OFF # SourceScalar(file, "LINE_OFF", 0)

\* a Pleiades Neo record was read
C20_WitnessNeo ==
    /\ rd # NoRead /\ rd.kind = "value" /\ IsPleiadesNeo(file)
    /\ rd.value.LINE_OFF = SourceScalar(file, "LINE_OFF", 0)

(***************************************************************************)
(* Claims about compute_epsg                                               *)
(***************************************************************************)
\* the number of the UTM zone that holds the longitude
ZoneOf(lon) == Floor(FDiv(FAdd(lon, FInt(180)), FInt(6))) + 1

\* C21: for a longitude in [-180, 180], compute_epsg returns 32600 + zone
\* when lat > 0 and 32700 + zone otherwise, where zone =
\* floor((lon + 180) / 6) + 1 is a UTM zone number in 1..60.
C21_EpsgOfUtmZone ==
    (fout.of = "compute_epsg" /\ FLe(FInt(-180), fargs.lon) /\ FLe(fargs.lon, FInt(180))) =>
        /\ ZoneOf(fargs.lon) \in 1..60
        /\ fout.value = (IF FLt(Zero, fargs.lat) THEN 32600 ELSE 32700) + ZoneOf(fargs.lon)

\* the same for longitudes below 180
C21_EpsgBelow180 ==
    (fout.of = "compute_epsg" /\ FLe(FInt(-180), fargs.lon) /\ FLt(fargs.lon, FInt(180))) =>
        /\ ZoneOf(fargs.lon) \in 1..60
        /\ fout.value = (IF FLt(Zero, fargs.lat) THEN 32600 ELSE 32700) + ZoneOf(fargs.lon)

(***************************************************************************)
(* Claims about incidence_angles                                           *)
(***************************************************************************)
\* the angle lies in [lo, hi]
Within(a, lo, hi) == lo <= a.lo /\ a.hi <= hi

\* C22: whenever incidence_angles returns, the zenith lies in [0, 90]
\* degrees and the azimuth in [0, 360] degrees.
C22_AnglesInRange ==
    (fout.of = "incidence_angles" /\ fout.value.kind = "value") =>
        /\ Within(fout.value.zenith, 0, 90)
        /\ Within(fout.value.azimuth, 0, 360)

\* the zenith lies in [0, 90] and the azimuth in (-180, 180]
C22_ZenithInRange ==
    (fout.of = "incidence_angles" /\ fout.value.kind = "value") =>
        /\ Within(fout.value.zenith, 0, 90)
        /\ Within(fout.value.azimuth, -180, 180)
        /\ fout.value.azimuth.hi > -180

(***************************************************************************)
(* Claims about the step of the iterative localization                     *)
(***************************************************************************)
\* the probes of the frame f are taken at its estimate with the step e
ProbedWith(m, f, e) ==
    /\ f.x1 = Rfm(m.col_num, m.col_den, f.lat, Plus(f.lon, e), f.alt)
    /\ f.y1 = Rfm(m.row_num, m.row_den, f.lat, Plus(f.lon, e), f.alt)
    /\ f.x2 = Rfm(m.col_num, m.col_den, Plus(f.lat, e), f.lon, f.alt)
    /\ f.y2 = Rfm(m.row_num, m.row_den, Plus(f.lat, e), f.lon, f.alt)

\* the frame g is the frame f after lon += a1 * e and lat += a2 * e
UpdatedWith(f, g, e) ==
    \A i \in 1..Len(f.col) :
        /\ g.lon[i] = FAdd(f.lon[i], FMul(ProjectOn(FSub(f.col[i], f.x0[i]),
                                                    FSub(f.row[i], f.y0[i]),
                                                    FSub(f.x1[i], f.x0[i]),
                                                    FSub(f.y1[i], f.y0[i])), e))
        /\ g.lat[i] = FAdd(f.lat[i], FMul(ProjectOn(FSub(f.col[i], f.x0[i]),
                                                    FSub(f.row[i], f.y0[i]),
                                                    FSub(f.x2[i], f.x0[i]),
                                                    FSub(f.y2[i], f.y0[i])), e))

\* C23: the initial probes and the first update use the step 2; every later
\* probe and every later update use the step 0.1.
C23_StepSchedule ==
    [][/\ (pc # "loop" /\ pc' = "loop") => ProbedWith(rpc, it', FInt(2))
       /\ (pc = "loop" /\ it' # it) =>
             /\ UpdatedWith(it, it', IF it.n = 0 THEN FInt(2) ELSE Frac(1, 10))
             /\ ProbedWith(rpc, it', Frac(1, 10))]_vars

\* a third update is under way: the second was made with the step 0.1
C23_Witness ==
    /\ pc = "loop"
    /\ it.n >= 2
    /\ it.EPS = Frac(1, 10)
    /\ ~ProbedWith(rpc, it, FInt(2))

(***************************************************************************)
(* Claims about the ikonos reader                                          *)
(***************************************************************************)
\* a file read as an ikonos text
IsIkonos(f) == ~IsXmlName(f.name) /\ ~IsJsonName(f.name)

\* the lines of the text, each as <<key, value>>: the first token without
\* the characters that no key has, and the second token; <<"", <<>>>> for a
\* line of fewer than two tokens
TextPairs(text) ==
    LET lines == SplitLines(text)
    IN [n \in 1..Len(lines) |->
          LET ll == Split(lines[n])
          IN IF Len(ll) > 1 THEN <<KeyOf(ll[1]), ll[2]>> ELSE <<"", <<>>>>]

\* the positions of the lines that give a value to the key
LinesOfKey(pairs, key) == {n \in 1..Len(pairs) : pairs[n][1] = key}

\* the value the text gives to the key: the one of its last line
LineValue(pairs, key) == pairs[Last(LinesOfKey(pairs, key))][2]

\* the values of prefix_1 .. prefix_20 in the text, separated by spaces
JoinedValues(pairs, prefix) ==
    StrVal(Join([x \in 1..NCoeff |-> LineValue(pairs, prefix \o "_" \o IntStr[x])]))

\* C24: the record read from an ikonos text has under each of SAMP_NUM_COEFF,
\* SAMP_DEN_COEFF, LINE_NUM_COEFF, LINE_DEN_COEFF the values of the keys
\* PREFIX_1 .. PREFIX_20 joined by spaces in index order, wherever their
\* lines stand; the four fields of the direct model are assembled, in the
\* same way, exactly when the key LON_NUM_COEFF_1 is present.
C24_IkonosAggregates ==
    (rd # NoRead /\ rd.kind = "value" /\ IsIkonos(file)) =>
        \A pairs \in {TextPairs(file.content.text)} :
            /\ \A n \in 1..Len(IkonosCoeffs) :
                  rd.value[IkonosCoeffs[n]] = JoinedValues(pairs, IkonosCoeffs[n])
            /\ \A n \in 1..Len(IkonosExtended) :
                  /\ IkonosExtended[n] \in DOMAIN rd.value
                        <=> LinesOfKey(pairs, "LON_NUM_COEFF_1") # {}
                  /\ IkonosExtended[n] \in DOMAIN rd.value =>
                        rd.value[IkonosExtended[n]] = JoinedValues(pairs, IkonosExtended[n])

\* an extended ikonos text whose lines stand last to first was read
C24_Witness ==
    /\ rd # NoRead /\ rd.kind = "value" /\ IsIkonos(file)
    /\ "LON_NUM_COEFF" \in DOMAIN rd.value
    /\ \E pairs \in {TextPairs(file.content.text)} :
          Last(LinesOfKey(pairs, "SAMP_NUM_COEFF_1"))
            > Last(LinesOfKey(pairs, "SAMP_NUM_COEFF_2"))

\* a text with coefficients of the direct model but without LON_NUM_COEFF_1
\* was read and the direct model was not assembled
C24_WitnessNotAssembled ==
    /\ rd # NoRead /\ rd.kind = "value" /\ IsIkonos(file)
    /\ "LON_NUM_COEFF" \notin DOMAIN rd.value
    /\ \E pairs \in {TextPairs(file.content.text)} :
          LinesOfKey(pairs, "LON_NUM_COEFF_2") # {}

(***************************************************************************)
(* Claims about remove_ikonos_units                                        *)
(***************************************************************************)
\* the characters of a value up to its first blank
FirstToken(v) ==
    IF \E i \in 1..Len(v) : IsSpace(v[i])
    THEN SubSeq(v, 1, (CHOOSE i \in 1..Len(v) :
                         IsSpace(v[i]) /\ \A j \in 1..(i - 1) : ~IsSpace(v[j])) - 1)
    ELSE v

\* C25: the mapping remove_ikonos_units returns has the keys of its input,
\* the first token of each value whose key ends in _OFF or _SCALE and every
\* other value unchanged; applied to its own result it changes nothing; the
\* model read from tags with units equals the model read from the tags
\* without them.
C25_UnitsRemoved ==
    /\ (fout.of = "remove_ikonos_units" /\ fout.value.err = "") =>
          /\ DOMAIN fout.value.val = DOMAIN fargs.tags
          /\ \A key \in DOMAIN fargs.tags :
                IF key \in ScalarKeys
                THEN fout.value.val[key] = StrVal(FirstToken(fargs.tags[key].v))
                ELSE fout.value.val[key] = fargs.tags[key]
          /\ fout.value.val = fargs.plain
    /\ fout.of = "again" => fout.value = fout.before
    /\ (fout.of = "rpc_from_geotiff" /\ fout.value.err = "") =>
          /\ fout.value = rpc_from_geotiff(fargs.plain)
          /\ RPCModel_eq(fout.value.obj, RPCModel(fargs.plain, "geotiff").obj) = "True"

\* a model was read from tags with units after all the offsets and scales
C25_Witness ==
    /\ fout.of = "rpc_from_geotiff"
    /\ fout.value.err = ""
    /\ \A key \in ScalarKeys : fargs.tags[key] # fargs.plain[key]
    /\ RPCModel(fargs.tags, "geotiff").err # ""

\* the units were removed twice
C25_WitnessAgain ==
    /\ fout.of = "again"
    /\ fargs.tags # fargs.plain
    /\ fout.value.err = ""

(***************************************************************************)
(* Claims about the symmetry of ==                                         *)
(***************************************************************************)
\* C26: for two models, each with or without the direct model, a == b and
\* b == a have the same outcome, True or False, and neither raises.
C26_EqSymmetric ==
    outcome # NoOutcome =>
        /\ outcome.eq \in {"True", "False"}
        /\ RPCModel_eq(Right(outcome.left), Left(outcome.left)) = outcome.eq

\* the same for two models that both have the direct model or both lack it
C26_EqSymmetricSameShape ==
    (outcome # NoOutcome /\ (hasattr(rpc1, "lat_num") <=> hasattr(rpc2, "lat_num"))) =>
        /\ outcome.eq \in {"True", "False"}
        /\ RPCModel_eq(Right(outcome.left), Left(outcome.left)) = outcome.eq

(***************************************************************************)
(* Claims about the model built from a __dict__                            *)
(***************************************************************************)
\* the two models have the same attributes with the same values
SameAttributes(x, y) == DOMAIN x = DOMAIN y /\ \A a \in DOMAIN x : x[a] = y[a]

\* the four lists of the direct model are all present or all absent
DirectAllOrNone(m) == HasDirectModel(m) \/ DOMAIN m \cap {"lon_num", "lon_den", "lat_num", "lat_den"} = {}

\* C27: after m2 = RPCModel(m1.__dict__, dict_format='rpcm') an assignment to
\* an attribute of either model changes the attribute of the other, and the
\* two models are equal after any sequence of assignments.
C27_AliasedStayEqual ==
    /\ origin.kind = "rpcm" => SameAttributes(rpc1, rpc2)
    /\ (origin.kind = "rpcm" /\ outcome # NoOutcome) => outcome.eq = "True"

\* C27 amended: the two models have the same attributes after any sequence
\* of assignments, and compare equal when every field is finite and the
\* lists of the direct model are all present or all absent.
C27_AliasedSameAttributes ==
    /\ origin.kind = "rpcm" => SameAttributes(rpc1, rpc2)
    /\ (origin.kind = "rpcm" /\ outcome # NoOutcome
           /\ FiniteFields(rpc1) /\ DirectAllOrNone(rpc1)) => outcome.eq = "True"

\* attributes were assigned through both models and the two compare equal
C27_Witness ==
    /\ origin.kind = "rpcm"
    /\ rpc2.row_offset = FInt(5)
    /\ rpc1.col_num = Dense
    /\ outcome.eq = "True"

(***************************************************************************)
(* Claims about the direct model of a constructed model                    *)
(***************************************************************************)
DirectAttrs == {"lon_num", "lon_den", "lat_num", "lat_den"}

\* C28: a model built from a tag mapping has all four of lon_num, lon_den,
\* lat_num, lat_den or none of them; a mapping with LON_NUM_COEFF that lacks
\* one of LON_DEN_COEFF, LAT_NUM_COEFF, LAT_DEN_COEFF yields no model; the
\* presence test on lat_num in localization agrees with the presence of the
\* other three.
C28_DirectAllOrNone ==
    /\ (fout.of = "RPCModel" /\ fout.value.err = "") =>
          /\ DirectAttrs \subseteq DOMAIN fout.value.obj
                \/ DirectAttrs \cap DOMAIN fout.value.obj = {}
          /\ DirectAttrs \subseteq DOMAIN fout.value.obj
                <=> "LON_NUM_COEFF" \in DOMAIN fargs.tags
    /\ (fout.of = "RPCModel" /\ "LON_NUM_COEFF" \in DOMAIN fargs.tags
           /\ ~({"LON_DEN_COEFF", "LAT_NUM_COEFF", "LAT_DEN_COEFF"} \subseteq DOMAIN fargs.tags)) =>
          fout.value.err = "KeyError"
    /\ fout.of = "localization" =>
          /\ fout.direct <=> DirectAttrs \subseteq DOMAIN fout.model
          /\ ~fout.direct <=> DirectAttrs \cap DOMAIN fout.model = {}

\* construction failed on a mapping with LON_NUM_COEFF and without
\* LAT_DEN_COEFF
C28_Witness ==
    /\ fout.of = "RPCModel"
    /\ fout.value.err = "KeyError"
    /\ "LON_NUM_COEFF" \in DOMAIN fargs.tags
    /\ "LAT_DEN_COEFF" \notin DOMAIN fargs.tags

\* a mapping with LAT_NUM_COEFF and without LON_NUM_COEFF gave a model
\* without the direct model, localized by the iterative inversion
C28_WitnessIgnored ==
    /\ fout.of = "localization"
    /\ "LAT_NUM_COEFF" \in DOMAIN fargs.tags
    /\ ~fout.direct
    /\ fout.value.kind = "value"

(***************************************************************************)
(* Claims about the iterative localization of a batch                      *)
(***************************************************************************)
\* the point i of the frame f passes the convergence test
Passes(f, i) == BelowTolerance(SqResidual(f.x0[i], f.y0[i], f.col[i], f.row[i]))

\* C29: every pass through the loop updates every point of the batch and
\* counts once for all of them; the loop returns only from a frame in which
\* every point passes the convergence test; when the cap is exceeded with a
\* point that does not pass, the call raises MaxLocalizationIterationsError
\* and returns no longitude or latitude, not even for the points that pass.
C29_BatchAsOne ==
    [][/\ (pc = "loop" /\ it' # it) =>
             /\ it'.n = it.n + 1
             /\ UpdatedWith(it, it', it.EPS)
       /\ (pc = "loop" /\ pc' = "returned") => \A i \in 1..Len(it.col) : Passes(it, i)
       /\ (pc = "loop" /\ pc' = "raised") =>
             /\ \E i \in 1..Len(it.col) : ~Passes(it, i)
             /\ result' = Raised("MaxLocalizationIterationsError")
             /\ result'.lon = <<>> /\ result'.lat = <<>>]_vars

\* a call on two points raised although one of them passes the test
C29_Witness ==
    /\ pc = "raised"
    /\ Len(it.col) = 2
    /\ \E i, j \in 1..2 : Passes(it, i) /\ ~Passes(it, j)
    /\ result.lon = <<>>

(***************************************************************************)
(* Claims about the command line                                           *)
(***************************************************************************)
Supplied(val) == val.t # "none"

EitherMustBeDefined(out) ==
    /\ out.kind = "error"
    /\ out.msg \in {"either --points or {-x, -y, -z} must be defined",
                     "either --points or {--lat, --lon} must be defined"}

\* C30: without --points, localization is called with every supplied triple
\* of -x, -y, -z, the value 0 included, and the message 'either --points or
\* {-x, -y, -z} must be defined' is given only when one of them was not
\* supplied; likewise projection with every supplied --lon and --lat.
C30_SuppliedValuesAccepted ==
    (fout.of = "main" /\ ~Supplied(fargs.points)) =>
        IF fargs.cmd = "localization"
        THEN /\ (Supplied(fargs.x) /\ Supplied(fargs.y) /\ Supplied(fargs.z)) =>
                   fout.value = Called("rpcm.localization", <<fargs.x, fargs.y, fargs.z>>)
             /\ EitherMustBeDefined(fout.value) =>
                   ~(Supplied(fargs.x) /\ Supplied(fargs.y) /\ Supplied(fargs.z))
        ELSE /\ (Supplied(fargs.lon) /\ Supplied(fargs.lat)) =>
                   fout.value = Called("rpcm.projection", <<fargs.lon, fargs.lat, fargs.z>>)
             /\ EitherMustBeDefined(fout.value) =>
                   ~(Supplied(fargs.lon) /\ Supplied(fargs.lat))

\* the same when no supplied value is 0
C30_NonZeroValuesAccepted ==
    (fout.of = "main" /\ ~Supplied(fargs.points)
       /\ \A k \in DOMAIN fargs \ {"cmd", "points"} : fargs[k] # FloatVal(Zero)) =>
        IF fargs.cmd = "localization"
        THEN /\ (Supplied(fargs.x) /\ Supplied(fargs.y) /\ Supplied(fargs.z)) =>
                   fout.value = Called("rpcm.localization", <<fargs.x, fargs.y, fargs.z>>)
             /\ EitherMustBeDefined(fout.value) =>
                   ~(Supplied(fargs.x) /\ Supplied(fargs.y) /\ Supplied(fargs.z))
        ELSE /\ (Supplied(fargs.lon) /\ Supplied(fargs.lat)) =>
                   fout.value = Called("rpcm.projection", <<fargs.lon, fargs.lat, fargs.z>>)
             /\ EitherMustBeDefined(fout.value) =>
                   ~(Supplied(fargs.lon) /\ Supplied(fargs.lat))

====
